---------------------------- MODULE Spec2Model ----------------------------
(***************************************************************************)
(* Model of the NHANES biomarker harmonisation pipeline:                   *)
(*   src/src/build_analysis_dataset.py  (unit algebra, pooling map,        *)
(*                                       long-table materialiser)          *)
(*   src/src/compute_cv_metrics.py      (age bins, binned CV, trends)      *)
(*                                                                         *)
(* Conventions.                                                            *)
(*  - A Python str is a sequence of characters; a character is a           *)
(*    one-character TLA+ string, except the non-ASCII ones, which are      *)
(*    written by their code point ("U+00B5").                              *)
(*  - Python None is the record None; an optional value is either None or  *)
(*    a record without the field `none`.                                   *)
(*  - The unit tables hold powers of ten only, so a scale 10^e is held as  *)
(*    the integer e; a quotient of scales is a difference of exponents.    *)
(***************************************************************************)
EXTENDS Integers, Sequences, FiniteSets, TLC

VARIABLES
    \* --- parse_unit_signature / conversion_factor under test
    upc,          \* position of the unit-algebra driver
    src_unit,     \* raw source unit string
    dst_unit,     \* raw destination unit string
    sig,          \* parse_unit_signature(src_unit), once computed
    cf_fwd,       \* conversion_factor(src_unit, dst_unit), once computed
    cf_back,      \* conversion_factor(dst_unit, src_unit), once computed
    \* --- assign_age_bins under test
    apc,          \* position of the age-bin driver
    age,          \* one element of the age series, in half years, or NaN
    age_bin,      \* its element of the returned series b
    age_mid,      \* its element of the returned series m, in half years
    \* --- compute_trends
    tpc,          \* position of the trend driver
    cv_df,        \* the argument: the set of rows of the binned CV table
    trends,       \* the rows of the returned frame, in order
    \* --- compute_binned
    bpc,          \* position of the binning driver
    long_df,      \* the argument: the rows of the harmonized long table
    grouped,      \* the rows of the returned frame
    \* --- write_long_dataset (with build_pooling_map)
    wpc,              \* position in write_long_dataset
    lab_manifest,     \* the variable manifest, a sequence of rows
    raw_dir,          \* the downloaded files: (year, file name) -> contents
    participants,     \* the participant table
    pooling_map_df,   \* the rows returned by build_pooling_map
    url_queue,        \* the files of vars_by_url still to visit
    cur_url,          \* the file being processed
    var_queue,        \* the variables of that file still to screen
    long_table,       \* the rows written to biomarker_long.parquet
    screen_rows,      \* the screening records
    kept_variables,   \* set of kept variable names
    kept_pooled_ids,  \* set of kept pooled ids
    n_rows,           \* counter of written rows
    n_files,          \* counter of processed files
    catalog,          \* the rows of the biomarker catalog
    returned,         \* the returned triple, once the function returns
    written,          \* the names of the output files written so far
    \* --- build_pooling_map under test
    ppc,              \* position of the pooling driver
    pool_manifest,    \* the argument: the manifest, a sequence of rows
    pool_map,         \* the rows of the returned frame
    \* --- the screening of write_long_dataset, run twice
    spc,              \* position of the screening driver
    scr_manifest,     \* the manifest of the first run
    scr_input,        \* the raw directory and participant table of both runs
    scr_order,        \* the order in which the second run lists the rows of the manifest
    screened_a,       \* the screening records of the first run
    screened_b,       \* the screening records of the second run
    \* --- compute_trends on a changed table
    cv_alt,           \* the binned CV table with one row added, removed or changed
    trends_alt,       \* the rows that compute_trends returns for it
    \* --- is_continuous_numeric under test
    npc,              \* position of the driver
    series,           \* the argument s: the values of one column
    verdict,          \* the returned boolean, once computed
    \* --- build_pooling_map on a changed manifest
    pool_alt,         \* the manifest with one row added, removed or altered
    pool_map_alt,     \* the rows that build_pooling_map returns for it
    \* --- parse_terminal_unit and normalize_base_name under test
    lpc,              \* position of the driver
    label_in,         \* the argument: a label, or a name
    label_alt,        \* a second name, a respelling of the first
    split,            \* parse_terminal_unit(label_in), once computed
    name_key,         \* normalize_base_name(label_in), once computed
    name_key_alt,     \* normalize_base_name(label_alt), once computed
    name_key_again,   \* normalize_base_name(name_key), once computed
    \* --- conversion through a second reference unit
    via_unit,         \* another unit of the pooled biomarker
    cf_to_via,        \* conversion_factor(src_unit, via_unit)
    cf_from_via       \* conversion_factor(via_unit, dst_unit)

unitVars == <<upc, src_unit, dst_unit, sig, cf_fwd, cf_back>>
ageVars == <<apc, age, age_bin, age_mid>>
trendVars == <<tpc, cv_df, trends>>
binVars == <<bpc, long_df, grouped>>
buildVars == <<wpc, lab_manifest, raw_dir, participants, pooling_map_df, url_queue, cur_url,
               var_queue, long_table, screen_rows, kept_variables, kept_pooled_ids,
               n_rows, n_files, catalog, returned, written>>
poolVars == <<ppc, pool_manifest, pool_map>>
screenVars == <<spc, scr_manifest, scr_input, scr_order, screened_a, screened_b>>
altVars == <<cv_alt, trends_alt>>
numVars == <<npc, series, verdict>>
poolAltVars == <<pool_alt, pool_map_alt>>
labelVars == <<lpc, label_in, label_alt, split, name_key, name_key_alt, name_key_again>>
viaVars == <<via_unit, cf_to_via, cf_from_via>>
vars == <<unitVars, ageVars, trendVars, binVars, buildVars, poolVars, screenVars, altVars, numVars, poolAltVars, labelVars, viaVars>>

\* the variables each component leaves alone
notUnit == <<ageVars, trendVars, binVars, buildVars, poolVars, screenVars, altVars, numVars, poolAltVars, labelVars, viaVars>>
notAge == <<unitVars, trendVars, binVars, buildVars, poolVars, screenVars, altVars, numVars, poolAltVars, labelVars, viaVars>>
notTrend == <<unitVars, ageVars, binVars, buildVars, poolVars, screenVars, altVars, numVars, poolAltVars, labelVars, viaVars>>
notBin == <<unitVars, ageVars, trendVars, buildVars, poolVars, screenVars, altVars, numVars, poolAltVars, labelVars, viaVars>>
notBuild == <<unitVars, ageVars, trendVars, binVars, poolVars, screenVars, altVars, numVars, poolAltVars, labelVars, viaVars>>
notPool == <<unitVars, ageVars, trendVars, binVars, buildVars, screenVars, altVars, numVars, poolAltVars, labelVars, viaVars>>
notScreen == <<unitVars, ageVars, trendVars, binVars, buildVars, poolVars, altVars, numVars, poolAltVars, labelVars, viaVars>>
notAlt == <<unitVars, ageVars, trendVars, binVars, buildVars, poolVars, screenVars, numVars, poolAltVars, labelVars, viaVars>>
notTrendAlt == <<unitVars, ageVars, binVars, buildVars, poolVars, screenVars, numVars, poolAltVars, labelVars, viaVars>>
notNum == <<unitVars, ageVars, trendVars, binVars, buildVars, poolVars, screenVars, altVars, poolAltVars, labelVars, viaVars>>
notPoolAlt == <<unitVars, ageVars, trendVars, binVars, buildVars, poolVars, screenVars, altVars, numVars, labelVars, viaVars>>
notPoolBoth == <<unitVars, ageVars, trendVars, binVars, buildVars, screenVars, altVars, numVars, labelVars, viaVars>>
notLabel == <<unitVars, ageVars, trendVars, binVars, buildVars, poolVars, screenVars, altVars, numVars, poolAltVars, viaVars>>
notVia == <<unitVars, ageVars, trendVars, binVars, buildVars, poolVars, screenVars, altVars, numVars, poolAltVars, labelVars>>

NaN == [nan |-> TRUE]

None == [none |-> TRUE]
Pending == [pending |-> TRUE]

-----------------------------------------------------------------------------
(* Characters and the str methods the code uses                            *)

MicroSign == "U+00B5"      \* the micro sign
GreekMu == "U+03BC"        \* Greek small letter mu
GreekCapMu == "U+039C"     \* Greek capital letter mu; lower() gives GreekMu

UpperSeq == <<"A","B","C","D","E","F","G","H","I","J","K","L","M",
              "N","O","P","Q","R","S","T","U","V","W","X","Y","Z">>
LowerSeq == <<"a","b","c","d","e","f","g","h","i","j","k","l","m",
              "n","o","p","q","r","s","t","u","v","w","x","y","z">>

\* str.isspace for one character (the class \s of re and what strip() removes)
IsSpace(c) == c \in {" ", "\t", "\n"}

\* str.lower for one character
LowerChar(c) ==
    IF \E i \in 1..Len(UpperSeq) : UpperSeq[i] = c
    THEN LowerSeq[CHOOSE i \in 1..Len(UpperSeq) : UpperSeq[i] = c]
    ELSE IF c = GreekCapMu THEN GreekMu ELSE c

\* str.lower
Lower(s) == [i \in 1..Len(s) |-> LowerChar(s[i])]

\* str.strip(): leading and trailing whitespace removed
RECURSIVE LStrip(_)
LStrip(s) == IF s # <<>> /\ IsSpace(Head(s)) THEN LStrip(Tail(s)) ELSE s

RECURSIVE RStrip(_)
RStrip(s) ==
    IF s # <<>> /\ IsSpace(s[Len(s)]) THEN RStrip(SubSeq(s, 1, Len(s) - 1)) ELSE s

Strip(s) == RStrip(LStrip(s))

\* str.replace(old, new) for a one-character old and new
ReplaceChar(s, old, new) == [i \in 1..Len(s) |-> IF s[i] = old THEN new ELSE s[i]]

\* re.sub(r"\s+", "", s): every whitespace character removed
RemoveSpace(s) == SelectSeq(s, LAMBDA c : ~IsSpace(c))

-----------------------------------------------------------------------------
(* Unit tables                                                             *)

\* PREFIX_SCALE: prefix -> exponent of ten
PREFIX_SCALE ==
    [p \in {<<>>, <<"p">>, <<"n">>, <<"u">>, <<"m">>, <<"c">>, <<"d">>} |->
        CASE p = <<>> -> 0
          [] p = <<"p">> -> -12
          [] p = <<"n">> -> -9
          [] p = <<"u">> -> -6
          [] p = <<"m">> -> -3
          [] p = <<"c">> -> -2
          [] p = <<"d">> -> -1]

\* DEN_SCALE: volume denominator -> exponent of ten (fraction of a litre)
DEN_SCALE ==
    [d \in {<<"l">>, <<"d","l">>, <<"m","l">>, <<"u","l">>} |->
        CASE d = <<"l">> -> 0
          [] d = <<"d","l">> -> -1
          [] d = <<"m","l">> -> -3
          [] d = <<"u","l">> -> -6]

\* the three groups of the unit grammar, alternatives in the order of the regex
RePrefixClass == {"p", "n", "u", "m", "c", "d"}
ReBases == << <<"g">>, <<"m","o","l">>, <<"i","u">>, <<"u">>, <<"e","q">>, <<"k","a","t">> >>
ReDens == << <<"l">>, <<"d","l">>, <<"m","l">>, <<"u","l">> >>

\* normalize_unit
normalize_unit(unit) ==
    RemoveSpace(ReplaceChar(ReplaceChar(Lower(Strip(unit)), GreekMu, "u"), MicroSign, "u"))

\* The grammar without its end anchor: the pattern may match a proper prefix.
UnitReCandidates_unanchored(u) ==
    { c \in [pfx : {0, 1}, b : 1..Len(ReBases), d : 1..Len(ReDens)] :
        /\ c.pfx = 1 => (u # <<>> /\ u[1] \in RePrefixClass)
        /\ LET w == (IF c.pfx = 1 THEN <<u[1]>> ELSE <<>>) \o ReBases[c.b] \o <<"/">> \o ReDens[c.d] IN
           Len(w) <= Len(u) /\ SubSeq(u, 1, Len(w)) = w }

\* re.match(r"^([pnumcd]?)(g|mol|iu|u|eq|kat)/(l|dl|ml|ul)$", u): the groups of
\* the first match in backtracking order (the optional prefix is greedy, the
\* alternatives are tried left to right), or None.
UnitReCandidates(u) ==
    { c \in [pfx : {0, 1}, b : 1..Len(ReBases), d : 1..Len(ReDens)] :
        /\ c.pfx = 1 => (u # <<>> /\ u[1] \in RePrefixClass)
        /\ u = (IF c.pfx = 1 THEN <<u[1]>> ELSE <<>>) \o ReBases[c.b] \o <<"/">> \o ReDens[c.d] }

UnitReRank(c) == (1 - c.pfx) * 100 + c.b * 10 + c.d

UnitReMatch(u) ==
    LET cs == UnitReCandidates(u) IN
    IF cs = {} THEN None
    ELSE LET c == CHOOSE x \in cs : \A y \in cs : UnitReRank(x) <= UnitReRank(y) IN
         [pfx |-> IF c.pfx = 1 THEN <<u[1]>> ELSE <<>>, base |-> ReBases[c.b], den |-> ReDens[c.d]]

\* parse_unit_signature
parse_unit_signature(unit) ==
    LET u == normalize_unit(unit) IN
    IF u = <<>> THEN None
    ELSE LET m == UnitReMatch(u) IN
         IF m = None THEN None
         ELSE IF m.pfx \notin DOMAIN PREFIX_SCALE \/ m.den \notin DOMAIN DEN_SCALE THEN None
         ELSE [num_base |-> m.base, num_scale |-> PREFIX_SCALE[m.pfx],
               den_scale |-> DEN_SCALE[m.den], unit_norm |-> u]

\* conversion_factor without the comparison of the two num_base
conversion_factor_nobase(src, dst) ==
    LET s == parse_unit_signature(src)
        d == parse_unit_signature(dst) IN
    IF s = None \/ d = None THEN None
    ELSE [exp |-> (s.num_scale - s.den_scale) - (d.num_scale - d.den_scale)]

\* conversion_factor with the destination density taken as num_scale * den_scale
conversion_factor_dstprod(src, dst) ==
    LET s == parse_unit_signature(src)
        d == parse_unit_signature(dst) IN
    IF s = None \/ d = None THEN None
    ELSE IF s.num_base # d.num_base THEN None
    ELSE [exp |-> (s.num_scale - s.den_scale) - (d.num_scale + d.den_scale)]

\* conversion_factor returning the source density, not the quotient
conversion_factor_srconly(src, dst) ==
    LET s == parse_unit_signature(src)
        d == parse_unit_signature(dst) IN
    IF s = None \/ d = None THEN None
    ELSE IF s.num_base # d.num_base THEN None
    ELSE [exp |-> s.num_scale - s.den_scale]

\* conversion_factor: the factor 10^exp as [exp |-> e], or None.  A power of
\* ten is never zero, so the test dst_density == 0 never succeeds.
conversion_factor(src, dst) ==
    LET s == parse_unit_signature(src)
        d == parse_unit_signature(dst) IN
    IF s = None \/ d = None THEN None
    ELSE IF s.num_base # d.num_base THEN None
    ELSE LET src_density == s.num_scale - s.den_scale
             dst_density == d.num_scale - d.den_scale IN
         [exp |-> src_density - dst_density]

-----------------------------------------------------------------------------
(* Input corpora for the unit algebra                                      *)

MaxPad == 1     \* whitespace characters put around a unit string

Spaces(n) == [i \in 1..n |-> " "]
Pads == { Spaces(n) : n \in 0..MaxPad }

\* unit strings as they appear in labels, inside and outside the grammar
ParsePrefixes ==
    { <<>>, <<"p">>, <<"n">>, <<"u">>, <<"m">>, <<"c">>, <<"d">>, <<"k">>, <<"M">>,
      <<MicroSign>>, <<GreekMu>>, <<GreekCapMu>>, <<"m","m">> }
ParseBases ==
    { <<>>, <<"g">>, <<"m","o","l">>, <<"i","u">>, <<"u">>, <<"e","q">>, <<"k","a","t">>,
      <<"I","U">>, <<"o","l">>, <<"x">> }
ParseSeps == { <<"/">>, <<" ","/"," ">>, <<>>, <<"/","/">> }
ParseDens ==
    { <<>>, <<"l">>, <<"d","l">>, <<"m","l">>, <<"u","l">>, <<"L">>, <<"d","L">>,
      <<"c","l">>, <<"m","3">>, <<"l","\n">> }
ParseTails == { <<>>, <<"x">> }

ParseCorpus ==
    { a \o p \o b \o s \o d \o t \o z :
        a \in Pads, p \in ParsePrefixes, b \in ParseBases, s \in ParseSeps,
        d \in ParseDens, t \in ParseTails, z \in Pads }

ConvPrefixes == { <<>>, <<"u">>, <<"m">>, <<"d">>, <<MicroSign>>, <<"k">> }
ConvBases == { <<"g">>, <<"m","o","l">>, <<"I","U">> }
ConvDens == { <<"l">>, <<"d","L">>, <<"d","l">>, <<"m","3">> }

ConvCorpus ==
    { p \o b \o <<"/">> \o d \o z : p \in ConvPrefixes, b \in ConvBases, d \in ConvDens, z \in Pads }
        \cup { <<>> }

-----------------------------------------------------------------------------
(* Driver of the unit algebra: the inputs are fixed by Init, the actions   *)
(* apply parse_unit_signature and conversion_factor to them.               *)

UnitIdle ==
    /\ upc = "idle" /\ src_unit = <<>> /\ dst_unit = <<>>
    /\ sig = Pending /\ cf_fwd = Pending /\ cf_back = Pending

AgeIdle == apc = "idle" /\ age = NaN /\ age_bin = "pending" /\ age_mid = Pending

TrendIdle == tpc = "idle" /\ cv_df = {} /\ trends = <<>>

BinIdle == bpc = "idle" /\ long_df = <<>> /\ grouped = {}

BuildIdle ==
    /\ wpc = "idle" /\ lab_manifest = <<>> /\ raw_dir = <<>> /\ participants = <<>>
    /\ pooling_map_df = <<>> /\ url_queue = <<>> /\ cur_url = Pending /\ var_queue = <<>>
    /\ long_table = <<>> /\ screen_rows = <<>> /\ kept_variables = {} /\ kept_pooled_ids = {}
    /\ n_rows = 0 /\ n_files = 0 /\ catalog = <<>> /\ returned = Pending /\ written = {}

PoolIdle == ppc = "idle" /\ pool_manifest = <<>> /\ pool_map = <<>>

ScreenIdle ==
    /\ spc = "idle" /\ scr_manifest = <<>> /\ scr_input = Pending /\ scr_order = <<>>
    /\ screened_a = {} /\ screened_b = {}

AltIdle == cv_alt = {} /\ trends_alt = <<>>

NumIdle == npc = "idle" /\ series = <<>> /\ verdict = Pending

PoolAltIdle == pool_alt = <<>> /\ pool_map_alt = <<>>

LabelIdle ==
    /\ lpc = "idle" /\ label_in = <<>> /\ label_alt = <<>> /\ split = Pending
    /\ name_key = Pending /\ name_key_alt = Pending /\ name_key_again = Pending

ViaIdle == via_unit = <<>> /\ cf_to_via = Pending /\ cf_from_via = Pending

InitParse ==
    /\ AgeIdle /\ TrendIdle /\ BinIdle /\ BuildIdle /\ PoolIdle /\ ScreenIdle /\ AltIdle /\ NumIdle /\ PoolAltIdle /\ LabelIdle /\ ViaIdle
    /\ upc = "start"
    /\ src_unit \in ParseCorpus
    /\ dst_unit = <<>>
    /\ sig = Pending
    /\ cf_fwd = Pending
    /\ cf_back = Pending

InitConv ==
    /\ AgeIdle /\ TrendIdle /\ BinIdle /\ BuildIdle /\ PoolIdle /\ ScreenIdle /\ AltIdle /\ NumIdle /\ PoolAltIdle /\ LabelIdle /\ ViaIdle
    /\ upc = "start"
    /\ src_unit \in ConvCorpus
    /\ dst_unit \in ConvCorpus
    /\ sig = Pending
    /\ cf_fwd = Pending
    /\ cf_back = Pending

\* sig = parse_unit_signature(src_unit)
ParseSrc ==
    /\ upc = "start"
    /\ sig' = parse_unit_signature(src_unit)
    /\ upc' = "parsed"
    /\ UNCHANGED <<src_unit, dst_unit, cf_fwd, cf_back>>
    /\ UNCHANGED notUnit

\* cf_fwd = conversion_factor(src_unit, dst_unit)
ConvertFwd ==
    /\ upc = "parsed"
    /\ cf_fwd' = conversion_factor(src_unit, dst_unit)
    /\ upc' = "fwd"
    /\ UNCHANGED <<src_unit, dst_unit, sig, cf_back>>
    /\ UNCHANGED notUnit

\* cf_back = conversion_factor(dst_unit, src_unit)
ConvertBack ==
    /\ upc = "fwd"
    /\ cf_back' = conversion_factor(dst_unit, src_unit)
    /\ upc' = "done"
    /\ UNCHANGED <<src_unit, dst_unit, sig, cf_fwd>>
    /\ UNCHANGED notUnit

NextParse == ParseSrc
NextConv == ParseSrc \/ ConvertFwd \/ ConvertBack

SpecParse == InitParse /\ [][NextParse]_vars
SpecConv == InitConv /\ [][NextConv]_vars

-----------------------------------------------------------------------------
(* The unit grammar as the specification states it, written independently  *)
(* of the parser: every string of the language with its table values.      *)

GrammarPrefixes ==
    { [s |-> <<>>, e |-> 0], [s |-> <<"p">>, e |-> -12], [s |-> <<"n">>, e |-> -9],
      [s |-> <<"u">>, e |-> -6], [s |-> <<"m">>, e |-> -3], [s |-> <<"c">>, e |-> -2],
      [s |-> <<"d">>, e |-> -1] }
GrammarBases == { <<"g">>, <<"m","o","l">>, <<"i","u">>, <<"u">>, <<"e","q">>, <<"k","a","t">> }
GrammarDens ==
    { [s |-> <<"l">>, e |-> 0], [s |-> <<"d","l">>, e |-> -1], [s |-> <<"m","l">>, e |-> -3],
      [s |-> <<"u","l">>, e |-> -6] }

GrammarForms ==
    { [text |-> p.s \o b \o <<"/">> \o d.s, base |-> b, num |-> p.e, den |-> d.e] :
        p \in GrammarPrefixes, b \in GrammarBases, d \in GrammarDens }

InGrammar(u) == \E f \in GrammarForms : f.text = u
FormOf(u) == CHOOSE f \in GrammarForms : f.text = u

\* lower-cased, micro signs mapped to 'u', all whitespace removed
StatedNorm(s) ==
    LET one(c) == IF LowerChar(c) \in {MicroSign, GreekMu} THEN "u" ELSE LowerChar(c) IN
    SelectSeq([i \in 1..Len(s) |-> one(s[i])], LAMBDA c : c \notin {" ", "\t", "\n"})

StatedSig(u) ==
    [num_base |-> FormOf(u).base, num_scale |-> FormOf(u).num,
     den_scale |-> FormOf(u).den, unit_norm |-> u]

U_mol_l == <<"m","o","l","/","l">>
U_mmol_l == <<"m","m","o","l","/","l">>
U_u_l == <<"u","/","l">>
U_mu_l == <<"m","u","/","l">>
U_mg_dl == <<"m","g","/","d","l">>
U_g_l == <<"g","/","l">>

\* C9: parse_unit_signature returns a signature iff the normalized unit is
\* non-empty and in the language of the grammar, None otherwise; a signature
\* carries the table values of the matched base, prefix and denominator, with
\* mol/l = mol without prefix, u/l = u without prefix, mu/l = milli-u and
\* mmol/l = milli-mol.
C9_ParseIffGrammar ==
    upc # "start" =>
        LET u == StatedNorm(src_unit) IN
        /\ IF u # <<>> /\ InGrammar(u) THEN sig = StatedSig(u) ELSE sig = None
        /\ u = U_mol_l => sig.num_base = <<"m","o","l">> /\ sig.num_scale = 0
        /\ u = U_u_l => sig.num_base = <<"u">> /\ sig.num_scale = 0
        /\ u = U_mu_l => sig.num_base = <<"u">> /\ sig.num_scale = -3
        /\ u = U_mmol_l => sig.num_base = <<"m","o","l">> /\ sig.num_scale = -3

\* a raw unit that needed normalizing was parsed as milli-mol per litre
C9_Witness ==
    /\ upc = "parsed"
    /\ src_unit # StatedNorm(src_unit)
    /\ sig # None
    /\ sig.unit_norm = U_mmol_l
    /\ sig.num_scale = -3

\* C10: conversion_factor(src, dst) is None iff src or dst is outside the
\* grammar or their bases differ; otherwise it is
\* (num_scale_src/den_scale_src) / (num_scale_dst/den_scale_dst), e.g. 10^-2
\* from mg/dL to g/L.
C10_FactorFormula ==
    upc \in {"fwd", "done"} =>
        LET a == StatedNorm(src_unit)
            b == StatedNorm(dst_unit) IN
        /\ IF InGrammar(a) /\ InGrammar(b) /\ FormOf(a).base = FormOf(b).base
           THEN cf_fwd = [exp |-> (FormOf(a).num - FormOf(a).den) - (FormOf(b).num - FormOf(b).den)]
           ELSE cf_fwd = None
        /\ (a = U_mg_dl /\ b = U_g_l) => cf_fwd = [exp |-> -2]

\* mg/dL was converted to g/L
C10_Witness ==
    /\ upc = "fwd"
    /\ StatedNorm(src_unit) = U_mg_dl
    /\ StatedNorm(dst_unit) = U_g_l
    /\ cf_fwd = [exp |-> -2]

\* a value m * 10^e multiplied by a factor
Times(v, f) == [m |-> v.m, e |-> v.e + f.exp]
SampleValues == { [m |-> 7, e |-> 0], [m |-> -3, e |-> -2], [m |-> 0, e |-> 0] }
One == [exp |-> 0]

\* C7: for units A, B that both parse with the same num_base,
\* conversion_factor(A,B) * conversion_factor(B,A) = 1, and converting a
\* value from A to B and back reproduces it.
C7_InverseFactors ==
    (upc = "done" /\ InGrammar(StatedNorm(src_unit)) /\ InGrammar(StatedNorm(dst_unit))
        /\ FormOf(StatedNorm(src_unit)).base = FormOf(StatedNorm(dst_unit)).base) =>
        /\ cf_fwd # None /\ cf_back # None
        /\ cf_fwd.exp + cf_back.exp = 0
        /\ \A v \in SampleValues : Times(Times(v, cf_fwd), cf_back) = v

\* two different units of one base were converted both ways
C7_Witness ==
    /\ upc = "done"
    /\ cf_fwd # None /\ cf_back # None
    /\ cf_fwd.exp > 0
    /\ cf_back.exp < 0

\* C8 as stated: whenever the two strings normalize identically, whatever the
\* unit, the factor is 1.0.
C8_AsStated ==
    (upc \in {"fwd", "done"} /\ normalize_unit(src_unit) = normalize_unit(dst_unit)) =>
        cf_fwd = One

\* C8 amended: when the two strings normalize identically the factor is 1.0 if
\* the normalized unit is inside the grammar, and None if it is outside it or
\* empty.
C8_SameUnitFactor ==
    (upc \in {"fwd", "done"} /\ normalize_unit(src_unit) = normalize_unit(dst_unit)) =>
        IF InGrammar(StatedNorm(src_unit)) THEN cf_fwd = One ELSE cf_fwd = None

\* two different spellings of one parseable unit gave the factor 1.0
C8_Witness ==
    /\ upc = "fwd"
    /\ src_unit # dst_unit
    /\ normalize_unit(src_unit) = normalize_unit(dst_unit)
    /\ normalize_unit(src_unit) # <<>>
    /\ cf_fwd = One

-----------------------------------------------------------------------------
(* conversion_factor between three units: from a member's unit to one      *)
(* reference unit directly, and through another reference unit             *)

notUnitVia == <<ageVars, trendVars, binVars, buildVars, poolVars, screenVars, altVars, numVars, poolAltVars, labelVars>>

ComposePrefixes == { <<>>, <<"m">>, <<MicroSign>>, <<"d">> }
ComposeBases == { <<"g">>, <<"m","o","l">> }
ComposeDens == { <<"L">>, <<"d","l">>, <<"m","3">> }

ComposeCorpus ==
    { p \o b \o <<"/">> \o d : p \in ComposePrefixes, b \in ComposeBases, d \in ComposeDens }

InitCompose ==
    /\ AgeIdle /\ TrendIdle /\ BinIdle /\ BuildIdle /\ PoolIdle /\ ScreenIdle /\ AltIdle /\ NumIdle /\ PoolAltIdle /\ LabelIdle
    /\ upc = "start"
    /\ src_unit \in ComposeCorpus
    /\ via_unit \in ComposeCorpus
    /\ dst_unit \in ComposeCorpus
    /\ sig = Pending
    /\ cf_fwd = Pending
    /\ cf_back = Pending
    /\ cf_to_via = Pending
    /\ cf_from_via = Pending

\* cf_to_via = conversion_factor(src_unit, via_unit)
ConvertToVia ==
    /\ upc = "fwd"
    /\ cf_to_via' = conversion_factor(src_unit, via_unit)
    /\ upc' = "to via"
    /\ UNCHANGED <<src_unit, dst_unit, sig, cf_fwd, cf_back, via_unit, cf_from_via>>
    /\ UNCHANGED notUnitVia

\* cf_from_via = conversion_factor(via_unit, dst_unit)
ConvertFromVia ==
    /\ upc = "to via"
    /\ cf_from_via' = conversion_factor(via_unit, dst_unit)
    /\ upc' = "composed"
    /\ UNCHANGED <<src_unit, dst_unit, sig, cf_fwd, cf_back, via_unit, cf_to_via>>
    /\ UNCHANGED notUnitVia

NextCompose == ParseSrc \/ ConvertFwd \/ ConvertToVia \/ ConvertFromVia
SpecCompose == InitCompose /\ [][NextCompose]_vars

\* the product of two factors
FactorProduct(f, g) == [exp |-> f.exp + g.exp]

\* the three units parse and have one num_base
SameBaseUnits(a, b, c) ==
    /\ InGrammar(StatedNorm(a)) /\ InGrammar(StatedNorm(b)) /\ InGrammar(StatedNorm(c))
    /\ FormOf(StatedNorm(a)).base = FormOf(StatedNorm(b)).base
    /\ FormOf(StatedNorm(b)).base = FormOf(StatedNorm(c)).base

\* C28: for units A, B, C that parse with one num_base,
\* conversion_factor(A,C) = conversion_factor(A,B) * conversion_factor(B,C);
\* hence a value of a member variable converted to the reference C is its
\* value converted to another reference B, rescaled by the one factor
\* conversion_factor(B,C), which does not depend on the member.
C28_FactorsCompose ==
    (upc = "composed" /\ SameBaseUnits(src_unit, via_unit, dst_unit)) =>
        /\ cf_fwd # None /\ cf_to_via # None /\ cf_from_via # None
        /\ cf_fwd = FactorProduct(cf_to_via, cf_from_via)
        /\ cf_from_via = FactorProduct(conversion_factor(via_unit, src_unit), cf_fwd)
        /\ \A v \in SampleValues : Times(v, cf_fwd) = Times(Times(v, cf_to_via), cf_from_via)

\* three different units of one base, converted upward to the second and
\* downward from it to the third
C28_Witness ==
    /\ upc = "composed"
    /\ SameBaseUnits(src_unit, via_unit, dst_unit)
    /\ cf_to_via # None /\ cf_from_via # None /\ cf_fwd # None
    /\ cf_to_via.exp > 0
    /\ cf_from_via.exp < 0
    /\ cf_fwd.exp # 0

-----------------------------------------------------------------------------
(* compute_cv_metrics.py: assign_age_bins.  Ages and midpoints are held in *)
(* half years (age 22.5 is [v |-> 45]); a missing number is the record     *)
(* NaN, a missing category is the label NaNLabel.                          *)

Num(x) == [v |-> x]
NaNLabel == "NaN"

Half(years) == 2 * years

\* edges = list(np.arange(20, 90, 5)) + [200]
edges == [i \in 1..14 |-> 20 + 5 * (i - 1)] \o <<200>>

\* labels = [f"{a}-{a+4}" for a in range(20, 85, 5)] + ["85+"]
labels == [i \in 1..13 |-> ToString(20 + 5 * (i - 1)) \o "-" \o ToString(20 + 5 * (i - 1) + 4)] \o <<"85+">>

\* mids = [a + 2.5 for a in range(20, 85, 5)] + [87.5], in half years
mids == [i \in 1..13 |-> Half(20 + 5 * (i - 1)) + 5] \o <<175>>

\* bins.searchsorted(x, side="right"): the number of edges <= x
SearchSortedRight(bins, x) == Cardinality({ i \in 1..Len(bins) : Half(bins[i]) <= x })

\* pd.cut(age, bins, labels=labels, right=False, include_lowest=True) for one
\* element: the label of the bin, or NaN when the element is missing or falls
\* outside [bins[0], bins[-1])
cut(x, bins, labs) ==
    IF x = NaN THEN NaNLabel
    ELSE LET ids0 == SearchSortedRight(bins, x.v)
             ids == IF x.v = Half(bins[1]) THEN 1 ELSE ids0 IN
         IF ids = Len(bins) \/ ids = 0 THEN NaNLabel ELSE labs[ids]

\* b.map(dict(zip(labels, mids))).astype(float) for one element
map_mid(b) ==
    IF b = NaNLabel THEN NaN ELSE Num(mids[CHOOSE i \in 1..Len(labels) : labels[i] = b])

MaxAge == 205    \* largest age tried, in years

InitAge ==
    /\ UnitIdle /\ TrendIdle /\ BinIdle /\ BuildIdle /\ PoolIdle /\ ScreenIdle /\ AltIdle /\ NumIdle /\ PoolAltIdle /\ LabelIdle /\ ViaIdle
    /\ apc = "start"
    /\ age \in { Num(x) : x \in 0..Half(MaxAge) } \cup {NaN}
    /\ age_bin = "pending"
    /\ age_mid = Pending

\* b, m = assign_age_bins(age)
AssignAgeBins ==
    /\ apc = "start"
    /\ age_bin' = cut(age, edges, labels)
    /\ age_mid' = map_mid(cut(age, edges, labels))
    /\ apc' = "done"
    /\ UNCHANGED age
    /\ UNCHANGED notAge

NextAge == AssignAgeBins
SpecAge == InitAge /\ [][NextAge]_vars

\* the 5-year bucket start of an age in half years
BucketStart(x) == 5 * (x \div Half(5))

\* C3 as stated: every age >= 20 gets exactly one bin, the bucket
\* 's-(s+4)' with midpoint s+2.5 when 20 <= a < 85 and '85+' with midpoint
\* 87.5 when a >= 85.
C3_AsStated ==
    (apc = "done" /\ age # NaN /\ age.v >= Half(20)) =>
        IF age.v < Half(85)
        THEN /\ age_bin = ToString(BucketStart(age.v)) \o "-" \o ToString(BucketStart(age.v) + 4)
             /\ age_mid = Num(Half(BucketStart(age.v)) + 5)
        ELSE /\ age_bin = "85+"
             /\ age_mid = Num(175)

-----------------------------------------------------------------------------
(* compute_cv_metrics.py: compute_trends.                                  *)
(*  - cv is held in hundredths (cv 0.30 is 30), age_mid in half years.     *)
(*  - A slope or a correlation is a quotient of integers, held as          *)
(*    [num, den] with den > 0 (rho is num / sqrt(den)), or NaN.            *)
(*  - The p-value is held by the one fact the code uses, whether it is     *)
(*    below 0.05: [lt05 |-> BOOLEAN], or NaN.                              *)
(*  - The slope of log(cv) is a logarithm of the data; it is held by the   *)
(*    points it is fitted to, [logfit |-> points], or NaN.                 *)

\* the eligible rows of one group as a sequence sorted by age_mid
RECURSIVE SortByAgeMid(_)
SortByAgeMid(g) ==
    IF g = {} THEN <<>>
    ELSE LET r == CHOOSE x \in g : \A y \in g : x.age_mid <= y.age_mid IN
         <<r>> \o SortByAgeMid(g \ {r})

RECURSIVE SumSeq(_)
SumSeq(q) == IF q = <<>> THEN 0 ELSE Head(q) + SumSeq(Tail(q))

Dot(a, b) == SumSeq([i \in 1..Len(a) |-> a[i] * b[i]])

\* twice the average rank of q[i] in q, less (n + 1): the centred rank doubled
CentredRank(q, i) ==
    2 * Cardinality({ j \in 1..Len(q) : q[j] < q[i] })
        + Cardinality({ j \in 1..Len(q) : q[j] = q[i] }) + 1 - (Len(q) + 1)

\* 1000 * t^2 for the two-sided 5% point of Student's t with dof degrees of freedom
TCrit2(dof) ==
    CASE dof = 1 -> 161448 [] dof = 2 -> 18513 [] dof = 3 -> 10128 [] dof = 4 -> 7709
      [] dof = 5 -> 6608 [] dof = 6 -> 5987 [] dof = 7 -> 5591 [] OTHER -> 5318

\* the correlation num / sqrt(den) of centred ranks with cross product cov and
\* squared norms product vxy, and whether its p-value for dof degrees of
\* freedom is below 0.05: t^2 = rho^2 * dof / (1 - rho^2) against TCrit2
rank_stats(cov, vxy, dof) ==
    IF vxy = 0 THEN <<NaN, NaN>>
    ELSE << [num |-> cov, den |-> vxy],
            IF dof = 0 THEN NaN
            ELSE [lt05 |-> cov * cov * dof * 1000 > TCrit2(dof) * (vxy - cov * cov)] >>

rank_corr(rx, ry, dof) == rank_stats(Dot(rx, ry), Dot(rx, rx) * Dot(ry, ry), dof)

\* scipy.stats.spearmanr(x, y): Pearson correlation of the average ranks and
\* its two-sided p-value from t = rho * sqrt(dof / (1 - rho^2)), dof = n - 2.
\* A constant input gives (nan, nan); with dof = 0 the p-value is nan.
spearmanr(x, y) ==
    rank_corr([i \in 1..Len(x) |-> CentredRank(x, i)],
              [i \in 1..Len(y) |-> CentredRank(y, i)],
              Len(x) - 2)

\* slope with the guard on the number of points one too low
slope_lt1(x, y) ==
    IF Len(x) < 1 THEN NaN
    ELSE [num |-> Len(x) * Dot(x, y) - SumSeq(x) * SumSeq(y),
          den |-> Len(x) * Dot(x, x) - SumSeq(x) * SumSeq(x)]

\* slope: the least-squares coefficient of degree 1 of np.polyfit(x, y, 1)
slope(x, y) ==
    IF Len(x) < 2 THEN NaN
    ELSE [num |-> Len(x) * Dot(x, y) - SumSeq(x) * SumSeq(y),
          den |-> Len(x) * Dot(x, x) - SumSeq(x) * SumSeq(x)]

\* slope(x[pos], np.log(y[pos]))
slope_log(pts) == IF Len(pts) < 2 THEN NaN ELSE [logfit |-> pts]

\* a number below zero; the caller has excluded NaN
Neg(q) == q.num < 0

\* the decline flag without the test of the p-value
decline_flag_nop(row) ==
    /\ row.n_bins >= 5
    /\ row.spearman_rho # NaN
    /\ row.spearman_p # NaN
    /\ Neg(row.spearman_rho)
    /\ row.linear_slope_cv_per_year # NaN
    /\ Neg(row.linear_slope_cv_per_year)

\* the decline flag with the bin threshold one too high
decline_flag_gt5(row) ==
    /\ row.n_bins > 5
    /\ row.spearman_rho # NaN
    /\ row.spearman_p # NaN
    /\ Neg(row.spearman_rho)
    /\ row.spearman_p.lt05
    /\ row.linear_slope_cv_per_year # NaN
    /\ Neg(row.linear_slope_cv_per_year)

\* row["decline_flag"] = bool(...)
decline_flag(row) ==
    /\ row.n_bins >= 5
    /\ row.spearman_rho # NaN
    /\ row.spearman_p # NaN
    /\ Neg(row.spearman_rho)
    /\ row.spearman_p.lt05
    /\ row.linear_slope_cv_per_year # NaN
    /\ Neg(row.linear_slope_cv_per_year)

\* The body of the loop over the groups, in the order of the code.  Each
\* intermediate value is bound once ("v \in {e}") before it is used.

\* row["decline_flag"] = bool(...): the row with its flag
with_flag(row) ==
    [biomarker_id |-> row.biomarker_id, biomarker_name |-> row.biomarker_name,
     n_bins |-> row.n_bins,
     spearman_rho |-> row.spearman_rho,
     spearman_p |-> row.spearman_p,
     linear_slope_cv_per_year |-> row.linear_slope_cv_per_year,
     linear_slope_logcv_per_year |-> row.linear_slope_logcv_per_year,
     decline_flag |-> decline_flag(row)]

\* rho, p and the row dict from x, y and the rows pos with y > 0
trend_xy(bid, bname, x, y, pos) ==
    CHOOSE out \in
        { with_flag(row) :
            row \in { [biomarker_id |-> bid, biomarker_name |-> bname,
                       n_bins |-> Len(x),
                       spearman_rho |-> rp[1],
                       spearman_p |-> rp[2],
                       linear_slope_cv_per_year |-> slope(x, y),
                       linear_slope_logcv_per_year |->
                           IF Len(pos) >= 2
                           THEN slope_log([i \in 1..Len(pos) |-> <<pos[i].age_mid, pos[i].cv>>])
                           ELSE NaN] :
                      rp \in { IF Len(y) >= 2 THEN spearmanr(x, y) ELSE <<NaN, NaN>> } } } : TRUE

\* x, y and pos of the sorted group g
trend_sorted(bid, bname, g) ==
    CHOOSE out \in
        { trend_xy(bid, bname, x, y, pos) :
            x \in { [i \in 1..Len(g) |-> g[i].age_mid] },
            y \in { [i \in 1..Len(g) |-> g[i].cv] },
            pos \in { SelectSeq(g, LAMBDA r : r.cv > 0) } } : TRUE

\* the row of one group grp of eligible rows
trend_row(bid, bname, grp) ==
    CHOOSE out \in { trend_sorted(bid, bname, g) : g \in {SortByAgeMid(grp)} } : TRUE

\* the rows of the table without the filter on passes_n_threshold
eligible_rows_unfiltered(df) == df

\* eligible = cv_df[cv_df["passes_n_threshold"]]
eligible_rows(df) == { r \in df : r.passes_n_threshold }

\* the keys of eligible.groupby(["biomarker_id", "biomarker_name"]), in sorted order
RECURSIVE SortKeys(_)
SortKeys(ks) ==
    IF ks = {} THEN <<>>
    ELSE LET k == CHOOSE a \in ks : \A b \in ks : a[1] < b[1] \/ (a[1] = b[1] /\ a[2] <= b[2]) IN
         <<k>> \o SortKeys(ks \ {k})

compute_trends(df) ==
    LET eligible == eligible_rows(df)
        keys == SortKeys({ <<r.biomarker_id, r.biomarker_name>> : r \in eligible }) IN
    [i \in 1..Len(keys) |->
        trend_row(keys[i][1], keys[i][2],
                  { r \in eligible : r.biomarker_id = keys[i][1] /\ r.biomarker_name = keys[i][2] })]

MaxBins == 5     \* age bins a biomarker has in the input table
MaxCv == 4       \* largest cv tried, in hundredths

\* what the table may hold for one age bin of one biomarker
BinChoices ==
    { [present |-> FALSE, cv |-> 0, passes |-> FALSE] }
        \cup { [present |-> TRUE, cv |-> c, passes |-> TRUE] : c \in 0..MaxCv }
        \cup { [present |-> TRUE, cv |-> MaxCv, passes |-> FALSE] }

TableOf(bid, bname, f) ==
    { [biomarker_id |-> bid, biomarker_name |-> bname, age_mid |-> mids[i],
       cv |-> f[i].cv, passes_n_threshold |-> f[i].passes] :
        i \in { j \in DOMAIN f : f[j].present } }

InitTrend ==
    /\ UnitIdle /\ AgeIdle /\ BinIdle /\ BuildIdle /\ PoolIdle /\ ScreenIdle /\ AltIdle /\ NumIdle /\ PoolAltIdle /\ LabelIdle /\ ViaIdle
    /\ tpc = "start"
    /\ cv_df \in { TableOf(1, 1, f) : f \in [1..MaxBins -> BinChoices] }
    /\ trends = <<>>

\* trends = compute_trends(cv_df)
ComputeTrends ==
    /\ tpc = "start"
    /\ trends' = compute_trends(cv_df)
    /\ tpc' = "done"
    /\ UNCHANGED cv_df
    /\ UNCHANGED notTrend

NextTrend == ComputeTrends
SpecTrend == InitTrend /\ [][NextTrend]_vars

TrendRows == { trends[i] : i \in DOMAIN trends }
Defined(q) == q # NaN
Negative(q) == Defined(q) /\ q.num < 0 /\ q.den > 0

\* C4: in every trend row decline_flag is true iff n_bins >= 5 and
\* spearman_rho is defined and < 0 and spearman_p is defined and < 0.05 and
\* linear_slope_cv_per_year is defined and < 0.
C4_DeclineFlagRule ==
    \A row \in TrendRows :
        row.decline_flag <=>
            /\ row.n_bins >= 5
            /\ Negative(row.spearman_rho)
            /\ Defined(row.spearman_p) /\ row.spearman_p.lt05
            /\ Negative(row.linear_slope_cv_per_year)

\* a row with five bins, negative rho and negative slope whose p-value is not
\* below 0.05, and so is not flagged
C4_Witness ==
    \E row \in TrendRows :
        /\ row.n_bins >= 5
        /\ Negative(row.spearman_rho)
        /\ Negative(row.linear_slope_cv_per_year)
        /\ Defined(row.spearman_p) /\ ~row.spearman_p.lt05
        /\ ~row.decline_flag

BiomarkerKeys(df) == { <<r.biomarker_id, r.biomarker_name>> : r \in df }
EligibleOf(df, k) ==
    { r \in df : r.biomarker_id = k[1] /\ r.biomarker_name = k[2] /\ r.passes_n_threshold }
StrictlyDeclining(E) ==
    \A a, b \in E : a # b => (a.age_mid # b.age_mid /\ (a.age_mid < b.age_mid => a.cv > b.cv))
RowsOf(k) == { i \in DOMAIN trends : trends[i].biomarker_id = k[1] /\ trends[i].biomarker_name = k[2] }

-----------------------------------------------------------------------------
(* compute_trends run on a table of two biomarkers, and run again on the   *)
(* same table with one row added, removed or changed                       *)

\* what the table may hold for one age bin of the first biomarker
PairChoices ==
    { [present |-> TRUE, cv |-> c, passes |-> TRUE] : c \in 0..2 }
        \cup { [present |-> TRUE, cv |-> 2, passes |-> FALSE] }

\* what it may hold for the one age bin of the second biomarker
OtherChoices ==
    { [present |-> FALSE, cv |-> 0, passes |-> FALSE],
      [present |-> TRUE, cv |-> 1, passes |-> TRUE],
      [present |-> TRUE, cv |-> 1, passes |-> FALSE] }

PairTables ==
    { TableOf(1, 1, f) \cup TableOf(2, 2, <<g>>) :
        f \in [1..MaxBins -> PairChoices], g \in OtherChoices }

\* the tables that differ from df in one row: a row removed, a row with
\* another cv or another passes_n_threshold, a row added
ChangedTables(df) ==
    { df \ {r} : r \in df }
      \cup { (df \ {r}) \cup {[r EXCEPT !.cv = (r.cv + 1) % 3]} : r \in df }
      \cup { (df \ {r}) \cup {[r EXCEPT !.passes_n_threshold = ~r.passes_n_threshold]} :
               r \in df }
      \cup { df \cup {[biomarker_id |-> bm[1], biomarker_name |-> bm[1], age_mid |-> bm[2],
                       cv |-> 1, passes_n_threshold |-> e]} :
               e \in BOOLEAN,
               bm \in { x \in {1, 2} \X {mids[1], mids[MaxBins + 1]} :
                          \A r \in df : ~(r.biomarker_id = x[1] /\ r.age_mid = x[2]) } }

InitPair ==
    /\ UnitIdle /\ AgeIdle /\ BinIdle /\ BuildIdle /\ PoolIdle /\ ScreenIdle /\ NumIdle /\ PoolAltIdle /\ LabelIdle /\ ViaIdle
    /\ tpc = "start"
    /\ cv_df \in PairTables
    /\ trends = <<>>
    /\ cv_alt = {}
    /\ trends_alt = <<>>

\* the table read by the second run
ChangeBins ==
    /\ tpc = "done"
    /\ cv_alt' \in ChangedTables(cv_df)
    /\ tpc' = "changed"
    /\ UNCHANGED <<cv_df, trends, trends_alt>>
    /\ UNCHANGED notTrendAlt

\* trends_alt = compute_trends(cv_alt)
RecomputeTrends ==
    /\ tpc = "changed"
    /\ trends_alt' = compute_trends(cv_alt)
    /\ tpc' = "redone"
    /\ UNCHANGED <<cv_df, trends, cv_alt>>
    /\ UNCHANGED notTrendAlt

NextPair == ComputeTrends \/ ChangeBins \/ RecomputeTrends
SpecPair == InitPair /\ [][NextPair]_vars

\* the trend rows of the biomarker k in the frame t
TrendRowsOf(t, k) ==
    { t[i] : i \in { j \in DOMAIN t : t[j].biomarker_id = k[1] /\ t[j].biomarker_name = k[2] } }

\* C21: the trend row of a biomarker depends only on its bins with
\* passes_n_threshold true: n_bins is the number of such bins, and a change
\* of the table that leaves these bins as they are (a bin with n < 30 or a
\* bin of another biomarker added, removed or changed) leaves the whole row,
\* with spearman_rho, spearman_p, the slopes and decline_flag, unchanged.
C21_TrendDependsOnEligibleBins ==
    tpc = "redone" =>
        \A k \in BiomarkerKeys(cv_df) \cup BiomarkerKeys(cv_alt) :
            /\ \A row \in TrendRowsOf(trends, k) :
                 row.n_bins = Cardinality(EligibleOf(cv_df, k))
            /\ \A row \in TrendRowsOf(trends_alt, k) :
                 row.n_bins = Cardinality(EligibleOf(cv_alt, k))
            /\ EligibleOf(cv_df, k) = EligibleOf(cv_alt, k) =>
                 TrendRowsOf(trends, k) = TrendRowsOf(trends_alt, k)

\* the first biomarker is flagged as declining, and a bin of its own with
\* n < 30 was added, removed or changed before the second run, which
\* flagged it again
C21_Witness ==
    /\ tpc = "redone"
    /\ EligibleOf(cv_df, <<1, 1>>) = EligibleOf(cv_alt, <<1, 1>>)
    /\ { r \in cv_df : r.biomarker_id = 1 } # { r \in cv_alt : r.biomarker_id = 1 }
    /\ \E row \in TrendRowsOf(trends, <<1, 1>>) : row.decline_flag
    /\ \E row \in TrendRowsOf(trends_alt, <<1, 1>>) : row.decline_flag

\* the positions of the rows of the biomarker k in the frame t
TrendIndexOf(t, k) ==
    { j \in DOMAIN t : t[j].biomarker_id = k[1] /\ t[j].biomarker_name = k[2] }

\* the frame t is what the claim says of the table df
OneRowPerEligibleBiomarker(df, t) ==
    /\ \A k \in BiomarkerKeys(df) :
         Cardinality(TrendIndexOf(t, k)) = IF EligibleOf(df, k) # {} THEN 1 ELSE 0
    /\ \A j \in DOMAIN t : <<t[j].biomarker_id, t[j].biomarker_name>> \in BiomarkerKeys(df)
    /\ \A j \in DOMAIN t :
         /\ t[j].n_bins >= 1
         /\ t[j].n_bins = 1 =>
              /\ t[j].spearman_rho = NaN
              /\ t[j].spearman_p = NaN
              /\ t[j].linear_slope_cv_per_year = NaN
              /\ t[j].linear_slope_logcv_per_year = NaN
              /\ ~t[j].decline_flag

-----------------------------------------------------------------------------
(* compute_cv_metrics.py: compute_binned.                                  *)
(*  - A value is a float64: Num(v) stands for v * 1e-8 (so the threshold   *)
(*    1e-8 on |mean| is 1), Huge for a finite double near 1e200, whose     *)
(*    square is beyond the largest double and overflows to +inf, NaN for a *)
(*    missing value.                                                       *)
(*  - mean is the quotient [num, den], or HugeMean, a finite mean of the   *)
(*    size of Huge.                                                        *)
(*  - std is sqrt(sq_num / sq_den), held as [sq_num, sq_den], or Inf, or   *)
(*    NaN; cv likewise.                                                    *)

Huge == [huge |-> TRUE]
HugeMean == [hugemean |-> TRUE]
Inf == [inf |-> TRUE]

MeanEps == 1     \* 1e-8, in the unit of the values

\* tmp = tmp.dropna(subset=["age_bin", "value"]), after the bins are assigned
binned_tmp(df) ==
    LET withbin == [i \in 1..Len(df) |->
                      [biomarker_id |-> df[i].biomarker_id, biomarker_name |-> df[i].biomarker_name,
                       unit |-> df[i].unit, value |-> df[i].value,
                       age_bin |-> cut(df[i].age_years, edges, labels),
                       age_mid |-> map_mid(cut(df[i].age_years, edges, labels))]] IN
    SelectSeq(withbin, LAMBDA r : r.age_bin # NaNLabel /\ r.value # NaN)

\* the key of a row in groupby(group_cols + ["age_bin", "age_mid"])
group_key(r) == <<r.biomarker_id, r.biomarker_name, r.unit, r.age_bin, r.age_mid>>

\* the values of the rows of the group k, in row order
group_values(tmp, k) ==
    LET rows == SelectSeq(tmp, LAMBDA r : group_key(r) = k) IN
    [i \in 1..Len(rows) |-> rows[i].value]

HasHuge(vals) == \E i \in DOMAIN vals : vals[i] = Huge
AllEqual(vals) == \A i, j \in DOMAIN vals : vals[i] = vals[j]
Plain(vals) == [i \in DOMAIN vals |-> vals[i].v]

\* agg "mean"
agg_mean(vals) ==
    IF HasHuge(vals) THEN HugeMean ELSE [num |-> SumSeq(Plain(vals)), den |-> Len(vals)]

\* agg "std": the sample standard deviation (ddof = 1); a single value gives
\* NaN, and a squared deviation of the size of Huge squared overflows to +inf
agg_std(vals) ==
    IF Len(vals) < 2 THEN NaN
    ELSE IF AllEqual(vals) THEN [sq_num |-> 0, sq_den |-> 1]
    ELSE IF HasHuge(vals) THEN Inf
    ELSE [sq_num |-> Len(vals) * Dot(Plain(vals), Plain(vals))
                        - SumSeq(Plain(vals)) * SumSeq(Plain(vals)),
          sq_den |-> Len(vals) * (Len(vals) - 1)]

\* grouped["mean"].abs() < 1e-8
mean_near_zero(mean) ==
    IF mean = HugeMean THEN FALSE
    ELSE (IF mean.num < 0 THEN -mean.num ELSE mean.num) < MeanEps * mean.den

\* grouped["std"] / grouped["mean"].abs(), in IEEE arithmetic
std_over_abs_mean(std, mean) ==
    IF std = NaN THEN NaN
    ELSE IF mean = HugeMean THEN (IF std = Inf THEN Inf ELSE [sq_num |-> 0, sq_den |-> 1])
    ELSE IF mean.num = 0 THEN (IF std # Inf /\ std.sq_num = 0 THEN NaN ELSE Inf)
    ELSE IF std = Inf THEN Inf
    ELSE [sq_num |-> std.sq_num * mean.den * mean.den,
          sq_den |-> std.sq_den * mean.num * mean.num]

\* one row of the aggregated frame with its cv and threshold flag
binned_row(k, vals) ==
    CHOOSE out \in
        { [biomarker_id |-> k[1], biomarker_name |-> k[2], unit |-> k[3],
           age_bin |-> k[4], age_mid |-> k[5],
           n |-> Len(vals), mean |-> m, std |-> sd,
           cv |-> IF mean_near_zero(m) THEN NaN ELSE std_over_abs_mean(sd, m),
           passes_n_threshold |-> Len(vals) >= 30] :
          m \in {agg_mean(vals)}, sd \in {agg_std(vals)} } : TRUE

\* compute_binned: the rows of the returned frame
compute_binned(df) ==
    LET rows(tmp) == { binned_row(k, group_values(tmp, k)) :
                         k \in { group_key(tmp[i]) : i \in DOMAIN tmp } } IN
    { r \in UNION { rows(tmp) : tmp \in {binned_tmp(df)} } : r.cv # NaN }

MaxRows == 3     \* rows of the long table
MaxVal == 2      \* largest plain value tried

\* the ages and values a row of the table may carry, in a fixed order
BinnedAges == << Num(Half(20)), Num(Half(24)), Num(Half(25)), Num(Half(200)) >>
BinnedValues == [j \in 1..(2 * MaxVal + 1) |-> Num(j - MaxVal - 1)] \o << Huge, NaN >>

\* the position of a row in that order
RowOrder(r) ==
    Len(BinnedValues) * (CHOOSE a \in DOMAIN BinnedAges : BinnedAges[a] = r.age_years)
        + (CHOOSE j \in DOMAIN BinnedValues : BinnedValues[j] = r.value)

InitBinned ==
    /\ UnitIdle /\ AgeIdle /\ TrendIdle /\ BuildIdle /\ PoolIdle /\ ScreenIdle /\ AltIdle /\ NumIdle /\ PoolAltIdle /\ LabelIdle /\ ViaIdle
    /\ bpc = "load"
    /\ long_df = <<>>
    /\ grouped = {}

\* df = pd.read_parquet(args.input_path), one row at a time.  The result of
\* compute_binned does not depend on the order of the rows, so each table is
\* loaded in one order only.
LoadRow ==
    /\ bpc = "load"
    /\ Len(long_df) < MaxRows
    /\ \E a \in DOMAIN BinnedAges, j \in DOMAIN BinnedValues :
        LET r == [biomarker_id |-> 1, biomarker_name |-> 1, unit |-> 1,
                  age_years |-> BinnedAges[a], value |-> BinnedValues[j]] IN
        /\ long_df # <<>> => RowOrder(long_df[Len(long_df)]) <= RowOrder(r)
        /\ long_df' = Append(long_df, r)
    /\ UNCHANGED <<bpc, grouped>>
    /\ UNCHANGED notBin

\* cv_all = compute_binned(df)
ComputeBinned ==
    /\ bpc = "load"
    /\ grouped' = compute_binned(long_df)
    /\ bpc' = "done"
    /\ UNCHANGED long_df
    /\ UNCHANGED notBin

NextBinned == LoadRow \/ ComputeBinned
SpecBinned == InitBinned /\ [][NextBinned]_vars

\* the (biomarker, age bin) groups of the rows that have a bin and a value
BinGroups(df) == { group_key(binned_tmp(df)[i]) : i \in DOMAIN binned_tmp(df) }
RowsWithKey(k) == { r \in grouped : group_key(r) = k }

\* n^2 times the sum of squared deviations from the mean, for plain values
ScaledSqDev(q) == SumSeq([i \in 1..Len(q) |-> (Len(q) * q[i] - SumSeq(q)) * (Len(q) * q[i] - SumSeq(q))])
AbsInt(x) == IF x < 0 THEN -x ELSE x

\* the sample std is undefined (one observation), or the cv is infinite
\* because the squared deviations exceed the float range
CvUndefined(vals) == Len(vals) < 2
CvInfinite(vals) == Len(vals) >= 2 /\ HasHuge(vals) /\ ~AllEqual(vals)
MeanBelowEps(vals) == ~HasHuge(vals) /\ AbsInt(SumSeq(Plain(vals))) < MeanEps * Len(vals)

\* cv = std(ddof=1) / |mean| for a retained row r of a group with values vals:
\* cv^2 * (n - 1) * sum^2 = n^2 * (sum of squared deviations)
CvIsStdOverMean(r, vals) ==
    /\ r.n = Len(vals)
    /\ r.cv # Inf
    /\ IF HasHuge(vals) THEN r.cv.sq_num = 0
       ELSE r.cv.sq_num * (Len(vals) - 1) * SumSeq(Plain(vals)) * SumSeq(Plain(vals))
                = ScaledSqDev(Plain(vals)) * r.cv.sq_den

\* C6 as stated: each (biomarker, age bin) group is dropped exactly when
\* |mean| < 1e-8 or its cv is not a finite number (a single observation
\* included), and every other group is retained with cv = std(ddof=1)/|mean|.
C6_AsStated ==
    bpc = "done" =>
        \A k \in BinGroups(long_df) :
            LET vals == group_values(binned_tmp(long_df), k) IN
            IF MeanBelowEps(vals) \/ CvUndefined(vals) \/ CvInfinite(vals)
            THEN RowsWithKey(k) = {}
            ELSE /\ Cardinality(RowsWithKey(k)) = 1
                 /\ \A r \in RowsWithKey(k) : CvIsStdOverMean(r, vals)


-----------------------------------------------------------------------------
(* build_analysis_dataset.py: labels, base names and the comment filter    *)

GreekAlpha == "U+03B1"
GreekBeta == "U+03B2"
GreekGamma == "U+03B3"
GreekDelta == "U+03B4"
EnDash == "U+2013"
EmDash == "U+2014"

DigitSeq == <<"0","1","2","3","4","5","6","7","8","9">>

\* the characters of the labels, in the order of their code points
CodePointOrder ==
    <<"\t", "\n", " ", "%", "(", ")", "+", ",", "-", ".", "/">> \o DigitSeq \o <<":">>
        \o UpperSeq \o <<"_">> \o LowerSeq
        \o <<MicroSign, GreekCapMu, GreekAlpha, GreekBeta, GreekGamma, GreekDelta, GreekMu,
             EnDash, EmDash>>

ord(c) == CHOOSE i \in DOMAIN CodePointOrder : CodePointOrder[i] = c

\* a < b for two str
RECURSIVE StrLess(_, _)
StrLess(a, b) ==
    IF b = <<>> THEN FALSE
    ELSE IF a = <<>> THEN TRUE
    ELSE IF Head(a) = Head(b) THEN StrLess(Tail(a), Tail(b))
    ELSE ord(Head(a)) < ord(Head(b))

\* sorted(S) for a set of str
RECURSIVE SortStrings(_)
SortStrings(S) ==
    IF S = {} THEN <<>>
    ELSE LET lo == CHOOSE a \in S : \A b \in S : a = b \/ StrLess(a, b) IN
         <<lo>> \o SortStrings(S \ {lo})

\* the concatenation of a sequence of sequences
RECURSIVE Concat(_)
Concat(qs) == IF qs = <<>> THEN <<>> ELSE Head(qs) \o Concat(Tail(qs))

\* str.rstrip(",")
RECURSIVE RStripComma(_)
RStripComma(s) ==
    IF s # <<>> /\ s[Len(s)] = "," THEN RStripComma(SubSeq(s, 1, Len(s) - 1)) ELSE s

\* the matches of \(([^()]*)\)\s*$ in s, as the positions of the two parentheses
TerminalUnitMatches(s) ==
    { m \in { <<i, j>> : i \in { k \in DOMAIN s : s[k] = "(" }, j \in { k \in DOMAIN s : s[k] = ")" } } :
        /\ m[1] < m[2]
        /\ \A k \in (m[1] + 1)..(m[2] - 1) : s[k] \notin {"(", ")"}
        /\ \A k \in (m[2] + 1)..Len(s) : IsSpace(s[k]) }

\* parse_terminal_unit with a group that may hold parentheses: the match
\* of \((.*)\)\s*$ starts at the first opening parenthesis
parse_terminal_unit_greedy(label) ==
    LET s == Strip(label)
        opens == { i \in DOMAIN s : s[i] = "(" /\ \E j \in (i + 1)..Len(s) : s[j] = ")" /\ j = Len(s) } IN
    IF opens = {} THEN [base |-> s, unit |-> <<>>]
    ELSE LET i == CHOOSE x \in opens : \A y \in opens : x <= y IN
         [base |-> RStripComma(Strip(SubSeq(s, 1, i - 1))),
          unit |-> Strip(SubSeq(s, i + 1, Len(s) - 1))]

\* parse_terminal_unit: re.search returns the leftmost match
parse_terminal_unit(label) ==
    LET s == Strip(label)
        ms == TerminalUnitMatches(s) IN
    IF ms = {} THEN [base |-> s, unit |-> <<>>]
    ELSE LET m == CHOOSE x \in ms : \A y \in ms : x[1] <= y[1] IN
         [base |-> RStripComma(Strip(SubSeq(s, 1, m[1] - 1))),
          unit |-> Strip(SubSeq(s, m[1] + 1, m[2] - 1))]

\* the replacements of normalize_base_name
BaseRepl(c) ==
    CASE c = GreekAlpha -> "a"
      [] c = GreekBeta -> "b"
      [] c = GreekGamma -> "g"
      [] c = GreekDelta -> "d"
      [] c = MicroSign -> "u"
      [] c = GreekMu -> "u"
      [] c = EnDash -> "-"
      [] c = EmDash -> "-"
      [] OTHER -> c

IsLowerLetter(c) == \E i \in DOMAIN LowerSeq : LowerSeq[i] = c
IsDigit(c) == \E i \in DOMAIN DigitSeq : DigitSeq[i] = c

\* the class [a-z0-9 %/+-]
BaseNameChar(c) == IsLowerLetter(c) \/ IsDigit(c) \/ c \in {" ", "%", "/", "+", "-"}

\* re.sub(r"\s+", " ", s)
RECURSIVE SqueezeSpace(_)
SqueezeSpace(s) ==
    IF s = <<>> THEN <<>>
    ELSE IF IsSpace(Head(s)) THEN <<" ">> \o SqueezeSpace(LStrip(s))
    ELSE <<Head(s)>> \o SqueezeSpace(Tail(s))

\* normalize_base_name
normalize_base_name(name) ==
    LET lowered == Lower(name)
        replaced == [i \in DOMAIN lowered |-> BaseRepl(lowered[i])]
        squeezed == SqueezeSpace(replaced)
        cleaned == [i \in DOMAIN squeezed |-> IF BaseNameChar(squeezed[i]) THEN squeezed[i] ELSE " "] IN
    Strip(SqueezeSpace(cleaned))

\* \w for one character
IsWordChar(c) ==
    \/ IsLowerLetter(c) \/ IsDigit(c) \/ c = "_"
    \/ \E i \in DOMAIN UpperSeq : UpperSeq[i] = c
    \/ c \in {MicroSign, GreekCapMu, GreekAlpha, GreekBeta, GreekGamma, GreekDelta, GreekMu}

\* the patterns of is_comment_or_code_variable: the literal text, and whether a
\* \b stands before and after it
CommentPatterns ==
    << [text |-> <<"c","o","m","m","e","n","t">>, before |-> TRUE, after |-> TRUE],
       [text |-> <<"c","o","m","m","e","n","t"," ","c","o","d","e">>, before |-> TRUE, after |-> TRUE],
       [text |-> <<"r","e","s","u","l","t"," ","c","o","d","e">>, before |-> TRUE, after |-> TRUE],
       [text |-> <<"s","t","a","t","u","s"," ","c","o","d","e">>, before |-> TRUE, after |-> TRUE],
       [text |-> <<"q","u","a","l","i","t","y"," ","c","o","n","t","r","o","l">>, before |-> TRUE, after |-> TRUE],
       [text |-> <<"d","e","t","e","c","t","i","o","n"," ","l","i","m","i","t">>, before |-> TRUE, after |-> TRUE],
       [text |-> <<"d","o"," ","y","o","u">>, before |-> TRUE, after |-> TRUE],
       [text |-> <<"d","i","d"," ","y","o","u">>, before |-> TRUE, after |-> TRUE],
       [text |-> <<"h","o","w"," ","o","f","t","e","n">>, before |-> TRUE, after |-> TRUE],
       [text |-> <<"q","u","e","s","t","i","o","n","n","a","i","r","e">>, before |-> TRUE, after |-> TRUE],
       [text |-> <<"d","u","p">>, before |-> TRUE, after |-> TRUE],
       [text |-> <<"d","u","p","l","i","c","a","t","e">>, before |-> TRUE, after |-> TRUE],
       [text |-> <<"a","b"," ","c","o","n">>, before |-> TRUE, after |-> TRUE],
       [text |-> <<"a","n","t","i","b","o","d","y"," ","c","o","n">>, before |-> TRUE, after |-> FALSE],
       [text |-> <<"o","d"," ","i","n"," ","d","u","p">>, before |-> TRUE, after |-> FALSE],
       [text |-> <<"o","d","_","d","u","p">>, before |-> FALSE, after |-> FALSE],
       [text |-> <<"m","e","a","n"," ","a","b"," ","c","o","n","c">>, before |-> TRUE, after |-> FALSE] >>

\* \b between position i and position i + 1 of v
WordBoundary(v, i) ==
    (i >= 1 /\ i <= Len(v) /\ IsWordChar(v[i])) # (i + 1 >= 1 /\ i + 1 <= Len(v) /\ IsWordChar(v[i + 1]))

\* re.search(p, v) is not None
PatternFound(p, v) ==
    \E i \in 1..(Len(v) - Len(p.text) + 1) :
        /\ SubSeq(v, i, i + Len(p.text) - 1) = p.text
        /\ p.before => WordBoundary(v, i - 1)
        /\ p.after => WordBoundary(v, i + Len(p.text) - 1)

\* is_comment_or_code_variable
is_comment_or_code_variable(variable_name, variable_desc) ==
    LET v == Lower(variable_name \o <<" ">> \o variable_desc) IN
    \E k \in DOMAIN CommentPatterns : PatternFound(CommentPatterns[k], v)


-----------------------------------------------------------------------------
(* parse_terminal_unit applied to a label                                  *)

\* The labels: a lead of whitespace, a base text, a separator, a
\* parenthesized tail and trailing whitespace.
SplitLeads == { <<>>, <<" ">> }
SplitBases ==
    { <<>>, <<"G","l">>, <<"G","l",",">>, <<"G","l"," ",",">>, <<"G","l",","," ",",">>,
      <<"G"," ","(","a",")",",">>, <<"(","G">> }
SplitSeps == { <<>>, <<" ">> }
SplitGroups ==
    { <<>>, <<"(","m","g",")">>, <<"("," ","m","g"," ",")">>, <<"(",")">>,
      <<"(","a","(","b",")",")">>, <<"(","a",")","(","b",")">>, <<"(","(","b",")">>,
      <<"(","b",")",")">>, <<"(","b",")"," ","x">> }
SplitTails == { <<>>, <<" ">>, <<"\n">> }

SplitCorpus ==
    { l \o b \o p \o g \o t :
        l \in SplitLeads, b \in SplitBases, p \in SplitSeps, g \in SplitGroups, t \in SplitTails }

InitSplit ==
    /\ UnitIdle /\ AgeIdle /\ TrendIdle /\ BinIdle /\ BuildIdle /\ PoolIdle /\ ScreenIdle /\ ViaIdle
    /\ AltIdle /\ NumIdle /\ PoolAltIdle
    /\ lpc = "start"
    /\ label_in \in SplitCorpus
    /\ label_alt = <<>>
    /\ split = Pending
    /\ name_key = Pending /\ name_key_alt = Pending /\ name_key_again = Pending

\* split = parse_terminal_unit(label_in)
ParseTerminalUnit ==
    /\ lpc = "start"
    /\ split' = parse_terminal_unit(label_in)
    /\ lpc' = "split"
    /\ UNCHANGED <<label_in, label_alt, name_key, name_key_alt, name_key_again>>
    /\ UNCHANGED notLabel

NextSplit == ParseTerminalUnit
SpecSplit == InitSplit /\ [][NextSplit]_vars

\* The split as the claim states it, of the stripped label s.
IsParen(c) == c \in {"(", ")"}

\* s ends in a parenthesized group without parentheses inside
EndsInGroup(s) ==
    /\ s # <<>>
    /\ s[Len(s)] = ")"
    /\ \E i \in 1..(Len(s) - 1) :
         s[i] = "(" /\ \A k \in (i + 1)..(Len(s) - 1) : ~IsParen(s[k])

\* where that group opens: at the last opening parenthesis
GroupStart(s) == CHOOSE i \in 1..(Len(s) - 1) : s[i] = "(" /\ \A k \in (i + 1)..(Len(s) - 1) : s[k] # "("

\* the text before the group, stripped of the whitespace around it and then
\* of the commas that end it (whitespace that stood before such a comma
\* stays); the content of the group, stripped
StatedSplit(lab) ==
    LET s == Strip(lab) IN
    IF EndsInGroup(s)
    THEN [base |-> RStripComma(Strip(SubSeq(s, 1, GroupStart(s) - 1))),
          unit |-> Strip(SubSeq(s, GroupStart(s) + 1, Len(s) - 1))]
    ELSE [base |-> s, unit |-> <<>>]

\* C25: parse_terminal_unit returns as unit the content of the last
\* non-nested parenthesized group that ends the label and as base the text
\* before it with surrounding whitespace and trailing commas removed; a
\* label that does not end in such a group (no parentheses, parentheses not
\* at the end, a nested group at the end) is returned whole, stripped, with
\* an empty unit.
C25_TerminalUnitSplit == lpc = "split" => split = StatedSplit(label_in)

\* a label with two groups was split at the last one, and a comma that ended
\* the text before it was removed
C25_Witness ==
    /\ lpc = "split"
    /\ split.unit = <<"m","g">>
    /\ Cardinality({ i \in DOMAIN label_in : label_in[i] = "(" }) = 2
    /\ split.base = <<"G"," ","(","a",")">>

\* a label that ends in a nested group was returned whole
NestedLabelReturnedWhole ==
    /\ lpc = "split"
    /\ split = [base |-> <<"G","l"," ","(","a","(","b",")",")">>, unit |-> <<>>]

-----------------------------------------------------------------------------
(* normalize_base_name applied to a name, to a respelling of the name and  *)
(* to its own output                                                       *)

MaxNameLen == 4     \* characters of a name

NameChars == { "u", "B", "1", " ", ".", MicroSign, EnDash }

RECURSIVE NamesOfLen(_)
NamesOfLen(n) ==
    IF n = 0 THEN { <<>> }
    ELSE { Append(s, c) : s \in NamesOfLen(n - 1), c \in NameChars }

NameCorpus == UNION { NamesOfLen(n) : n \in 0..MaxNameLen }

\* the characters that may stand for c in a respelling: the other case, a
\* Greek letter or a dash for its ASCII equivalent and back, another
\* character outside [a-z0-9 %/+-], another whitespace character
Respelled(c) ==
    CASE c = "u" -> {"U", MicroSign, GreekMu}
      [] c = "B" -> {"b"}
      [] c = " " -> {"\t", "\n"}
      [] c = "." -> {"_", ",", "("}
      [] c = MicroSign -> {GreekMu, GreekCapMu, "u"}
      [] c = EnDash -> {EmDash, "-"}
      [] OTHER -> {}

\* whether c is outside [a-z0-9 %/+-] for the normalizer: not a letter in
\* either case, not a replaced Greek letter or dash, not whitespace
OutsideChar(c) == ~BaseNameChar(BaseRepl(LowerChar(c))) /\ ~IsSpace(c)

\* the names that differ from s in one character outside the set left out
Unpunctuated(s) ==
    { SubSeq(s, 1, i - 1) \o SubSeq(s, i + 1, Len(s)) : i \in { j \in DOMAIN s : OutsideChar(s[j]) } }

\* the names that differ from s in one character respelled, or in the
\* length of one run of whitespace
Respellings(s) ==
    { [s EXCEPT ![p[1]] = p[2]] : p \in { q \in (DOMAIN s) \X UNION { Respelled(c) : c \in NameChars } :
                                             q[2] \in Respelled(s[q[1]]) } }
      \cup { SubSeq(s, 1, i) \o <<" ">> \o SubSeq(s, i + 1, Len(s)) : i \in { j \in DOMAIN s : IsSpace(s[j]) } }

InitName ==
    /\ UnitIdle /\ AgeIdle /\ TrendIdle /\ BinIdle /\ BuildIdle /\ PoolIdle /\ ScreenIdle /\ ViaIdle
    /\ AltIdle /\ NumIdle /\ PoolAltIdle
    /\ lpc = "name"
    /\ label_in \in NameCorpus
    /\ label_alt = <<>>
    /\ split = Pending
    /\ name_key = Pending /\ name_key_alt = Pending /\ name_key_again = Pending

\* name_key = normalize_base_name(label_in)
NormalizeName ==
    /\ lpc = "name"
    /\ name_key' = normalize_base_name(label_in)
    /\ lpc' = "keyed"
    /\ UNCHANGED <<label_in, label_alt, split, name_key_alt, name_key_again>>
    /\ UNCHANGED notLabel

\* name_key_again = normalize_base_name(name_key)
NormalizeAgain ==
    /\ lpc = "keyed"
    /\ name_key_again' = normalize_base_name(name_key)
    /\ lpc' = "keyed twice"
    /\ UNCHANGED <<label_in, label_alt, split, name_key, name_key_alt>>
    /\ UNCHANGED notLabel

\* name_key_alt = normalize_base_name(label_alt), for a respelling of the name
NormalizeRespelled ==
    /\ lpc = "keyed twice"
    /\ label_alt' \in Respellings(label_in) \cup Unpunctuated(label_in)
    /\ name_key_alt' = normalize_base_name(label_alt')
    /\ lpc' = "respelled"
    /\ UNCHANGED <<label_in, split, name_key, name_key_again>>
    /\ UNCHANGED notLabel

NextName == NormalizeName \/ NormalizeAgain \/ NormalizeRespelled
SpecName == InitName /\ [][NextName]_vars

\* the characters [a-z0-9 %/+-]
KeyChars ==
    { LowerSeq[i] : i \in DOMAIN LowerSeq } \cup { DigitSeq[i] : i \in DOMAIN DigitSeq }
        \cup {" ", "%", "/", "+", "-"}

\* a key of these characters without a space at either end or two in a row
CanonicalKey(k) ==
    /\ \A i \in DOMAIN k : k[i] \in KeyChars
    /\ k # <<>> => (k[1] # " " /\ k[Len(k)] # " ")
    /\ \A i \in 1..(Len(k) - 1) : ~(k[i] = " " /\ k[i + 1] = " ")

\* C26: the output of normalize_base_name holds only characters of
\* [a-z0-9 %/+-], has no leading, trailing or consecutive spaces, and is
\* returned unchanged when normalized again; two names that differ only in
\* letter case, in characters outside that set, in Greek letters versus
\* their ASCII equivalents or in runs of whitespace get the same key.
C26_AsStated ==
    /\ lpc \in {"keyed", "keyed twice", "respelled"} => CanonicalKey(name_key)
    /\ lpc \in {"keyed twice", "respelled"} => name_key_again = name_key
    /\ lpc = "respelled" => name_key_alt = name_key

\* The key is canonical and normalizing is idempotent; a respelling that
\* keeps every character's place gets the same key.
CanonicalAndIdempotent ==
    /\ lpc \in {"keyed", "keyed twice", "respelled"} => CanonicalKey(name_key)
    /\ lpc \in {"keyed twice", "respelled"} => name_key_again = name_key
    /\ lpc = "respelled" /\ label_alt \in Respellings(label_in) => name_key_alt = name_key

\* A character outside the set is replaced by a space, not removed: the
\* name "u.B" is keyed as two words, the name "uB" as one.
PunctuationSplitsWord ==
    /\ lpc = "respelled"
    /\ label_in = <<"u", ".", "B">>
    /\ label_alt = <<"u", "B">>
    /\ name_key = <<"u", " ", "b">>
    /\ name_key_alt = <<"u", "b">>

-----------------------------------------------------------------------------
(* build_analysis_dataset.py: build_pooling_map.                           *)
(*  - A manifest row is a record; its xpt_url is held as the two parts the *)
(*    code reads from it, [public, year, fname]: whether it has the        *)
(*    directory /Public/<year>/DataFiles/, the year, and the file name.    *)
(*  - A conversion factor is [exp |-> e], standing for 10^e.               *)

\* a description missing from the manifest (NaN in the column), held as a
\* sequence that no string equals
NoDesc == <<"NaN">>

\* str(x) of a cell of the manifest
str(x) == IF x = NoDesc THEN <<"n","a","n">> ELSE x

\* lab_manifest[lab_manifest["is_blood_candidate"]]
blood_candidates(manifest) == SelectSeq(manifest, LAMBDA r : r.is_blood_candidate)

\* the rows that groupby(["variable_name", "variable_desc"]) puts into a
\* group: it drops the rows whose key is missing
described(blood) == SelectSeq(blood, LAMBDA r : r.variable_desc # NoDesc)

\* groupby(["variable_name", "variable_desc"]).size() for one group
desc_count(blood, name, desc) ==
    Cardinality({ i \in DOMAIN blood : blood[i].variable_name = name /\ blood[i].variable_desc = desc })

\* the least description of a variable, whatever its count
representative_desc_least(blood, name) ==
    LET ds == { blood[i].variable_desc : i \in { k \in DOMAIN blood : blood[k].variable_name = name } } IN
    CHOOSE d \in ds : \A o \in ds : d = o \/ StrLess(d, o)

\* the description that sort_values(["variable_name", "size"], [True, False])
\* followed by drop_duplicates(keep="first") leaves for a variable: groupby
\* yields its groups in key order and the sort is stable, so among the most
\* frequent descriptions the least one is kept
representative_desc(blood, name) ==
    LET ds == { blood[i].variable_desc : i \in { k \in DOMAIN blood : blood[k].variable_name = name } } IN
    CHOOSE d \in ds : \A o \in ds :
        \/ desc_count(blood, name, d) > desc_count(blood, name, o)
        \/ desc_count(blood, name, d) = desc_count(blood, name, o) /\ (d = o \/ StrLess(d, o))

\* a compat_key that is always the raw bucket of the unit
compat_key_of_raw(unit_raw) == <<"r","a","w",":">> \o normalize_unit(unit_raw)

\* a compat_key that leaves the base of a parsed unit out
compat_key_of_anybase(unit_raw) ==
    LET x == parse_unit_signature(unit_raw) IN
    IF x # None THEN <<"/","v","o","l">>
    ELSE <<"r","a","w",":">> \o normalize_unit(unit_raw)

\* compat_key of a unit
compat_key_of(unit_raw) ==
    LET x == parse_unit_signature(unit_raw) IN
    IF x # None THEN x.num_base \o <<"/","v","o","l">>
    ELSE <<"r","a","w",":">> \o normalize_unit(unit_raw)

\* one row of var_counts with the columns derived from its description
var_counts_row(name, desc, size) ==
    CHOOSE out \in
        { [variable_name |-> name, variable_desc |-> desc, size |-> size,
           base_name |-> p.base, unit_raw |-> p.unit,
           base_key |-> normalize_base_name(p.base),
           unit_norm |-> normalize_unit(p.unit),
           compat_key |-> compat_key_of(p.unit)] : p \in {parse_terminal_unit(desc)} } : TRUE

\* var_counts, in the order of variable_name
var_counts(blood) ==
    LET g == described(blood)
        names == SortStrings({ g[i].variable_name : i \in DOMAIN g })
        row(name, desc) == var_counts_row(name, desc, desc_count(g, name, desc)) IN
    [k \in DOMAIN names |-> row(names[k], representative_desc(g, names[k]))]

\* the first row of minimal size
ref_row_smallest(g) ==
    g[CHOOSE i \in DOMAIN g :
        /\ \A j \in DOMAIN g : g[j].size >= g[i].size
        /\ \A j \in 1..(i - 1) : g[j].size > g[i].size]

\* g.sort_values("size", ascending=False).iloc[0]: the first row of maximal
\* size (the sort of a short column keeps equal sizes in their order)
ref_row(g) ==
    g[CHOOSE i \in DOMAIN g :
        /\ \A j \in DOMAIN g : g[j].size <= g[i].size
        /\ \A j \in 1..(i - 1) : g[j].size < g[i].size]

\* a pooled_id whose suffix is always the sanitized compat_key
pooled_id_of_compat(base_key, compat_key, multi_compat, ref_unit) ==
    IF ~multi_compat THEN base_key
    ELSE base_key \o <<"_", "_">> \o ReplaceChar(compat_key, ":", "_")

\* pooled_id of a sub-group
pooled_id_of(base_key, compat_key, multi_compat, ref_unit) ==
    IF ~multi_compat THEN base_key
    ELSE LET suffix == IF normalize_unit(ref_unit) # <<>> THEN normalize_unit(ref_unit)
                       ELSE ReplaceChar(compat_key, ":", "_") IN
         base_key \o <<"_", "_">> \o suffix

\* pooled_name of a sub-group
pooled_name_of(ref_base_name, ref_unit) ==
    IF ref_unit # <<>> THEN ref_base_name \o <<" ", "(">> \o ref_unit \o <<")">> ELSE ref_base_name

\* conversion_factor_to_pooled_unit of a member
member_factor(unit_raw, ref_unit) ==
    IF ref_unit # <<>> /\ unit_raw # <<>> /\ normalize_unit(unit_raw) # normalize_unit(ref_unit)
    THEN LET f == conversion_factor(unit_raw, ref_unit) IN
         IF f # None THEN f ELSE One
    ELSE One

\* the rows appended for one (base_key, compat_key) sub-group g
sub_group_rows(base_key, compat_key, multi_compat, g) ==
    LET ref == ref_row(g)
        entry(r, pooled_id, pooled_name) ==
            [variable_name |-> r.variable_name, variable_desc |-> r.variable_desc,
             base_key |-> base_key, compat_key |-> compat_key,
             pooled_id |-> pooled_id, pooled_name |-> pooled_name,
             pooled_unit |-> ref.unit_raw,
             conversion_factor_to_pooled_unit |-> member_factor(r.unit_raw, ref.unit_raw)] IN
    CHOOSE out \in
        { [i \in DOMAIN g |-> entry(g[i], pid, pname)] :
            pid \in {pooled_id_of(base_key, compat_key, multi_compat, ref.unit_raw)},
            pname \in {pooled_name_of(ref.base_name, ref.unit_raw)} } : TRUE

\* the rows appended for one base_key, with multi_compat taken over the
\* compat keys of every base_key
base_group_rows_shared(vc, base_key) ==
    LET g_base == SelectSeq(vc, LAMBDA r : r.base_key = base_key)
        compat_keys == SortStrings({ g_base[i].compat_key : i \in DOMAIN g_base })
        multi_compat == Cardinality({ vc[i].compat_key : i \in DOMAIN vc }) > 1 IN
    Concat([c \in DOMAIN compat_keys |->
              sub_group_rows(base_key, compat_keys[c], multi_compat,
                             SelectSeq(g_base, LAMBDA r : r.compat_key = compat_keys[c]))])

\* the rows appended for one base_key
base_group_rows(vc, base_key) ==
    LET g_base == SelectSeq(vc, LAMBDA r : r.base_key = base_key)
        compat_keys == SortStrings({ g_base[i].compat_key : i \in DOMAIN g_base })
        multi_compat == Len(compat_keys) > 1 IN
    Concat([c \in DOMAIN compat_keys |->
              sub_group_rows(base_key, compat_keys[c], multi_compat,
                             SelectSeq(g_base, LAMBDA r : r.compat_key = compat_keys[c]))])

\* the rows for the representative rows vc
pooling_rows(vc) ==
    LET base_keys == SortStrings({ vc[i].base_key : i \in DOMAIN vc }) IN
    Concat([b \in DOMAIN base_keys |-> base_group_rows(vc, base_keys[b])])

\* a build_pooling_map that never raises
build_pooling_map_never_raises(manifest) == FALSE

\* build_pooling_map raises when var_counts is empty (no row is a blood
\* candidate with a description): zip(*...) of an empty column yields nothing
\* to unpack into (base_name, unit_raw)
build_pooling_map_raises(manifest) == described(blood_candidates(manifest)) = <<>>

\* build_pooling_map: the rows of the returned frame
build_pooling_map(manifest) ==
    CHOOSE out \in { pooling_rows(vc) : vc \in {var_counts(blood_candidates(manifest))} } : TRUE


-----------------------------------------------------------------------------
(* build_analysis_dataset.py: is_continuous_numeric and the raw files.     *)
(*  - A raw value is m * 10^e, held as [m, e], or NaN.                     *)
(*  - raw_dir maps the path (year, file name) of a downloaded file to      *)
(*    [readable, columns]; columns maps a column name to the kind of its   *)
(*    content, and xpt_column gives the content of a kind.                 *)
(*  - An Int64 is [int |-> k], or NA.                                      *)

NA == [na |-> TRUE]

RECURSIVE Pow10(_)
Pow10(k) == IF k = 0 THEN 1 ELSE 10 * Pow10(k - 1)

\* np.round of m / d (ties go to the even neighbour)
RoundHalfEven(m, d) ==
    LET q == m \div d
        r == m % d IN
    IF 2 * r < d THEN q
    ELSE IF 2 * r > d THEN q + 1
    ELSE IF q % 2 = 0 THEN q ELSE q + 1

\* np.isclose(x, np.round(x), atol=1e-12), with the default rtol of 1e-5:
\* |x - round(x)| <= 1e-12 + 1e-5 * |round(x)|, for denominators below 10^7
integer_like(x) ==
    IF x.e >= 0 THEN TRUE
    ELSE LET d == Pow10(-x.e)
             r == RoundHalfEven(x.m, d) IN
         AbsInt(x.m - r * d) * 100000 <= d * AbsInt(r)

\* is_continuous_numeric
is_continuous_numeric(s) ==
    LET x == SelectSeq(s, LAMBDA v : v # NaN)
        n == Len(x)
        nunique == Cardinality({ x[i] : i \in DOMAIN x })
        n_integer_like == Cardinality({ i \in DOMAIN x : integer_like(x[i]) }) IN
    IF n < 30 THEN FALSE
    ELSE IF nunique < 8 THEN FALSE
    ELSE IF n_integer_like * 1000 > 995 * n /\ nunique <= 12 THEN FALSE
    ELSE IF nunique * 100 < n /\ nunique < 20 THEN FALSE
    ELSE TRUE

\* Columns for is_continuous_numeric.  A column holds n_half values with a
\* fractional part of one half, spread over d_half distinct values near
\* zero or near 100000, then n_int integers spread over d_int distinct
\* values, then n_nan missing values.
HalfValue(j, big) == [m |-> 10 * j + 5 + (IF big THEN 1000000 ELSE 0), e |-> -1]

Column(n_half, d_half, big, n_int, d_int, n_nan) ==
    [i \in 1..n_half |-> HalfValue(((i - 1) % d_half) + 1, big)]
      \o [i \in 1..n_int |-> [m |-> ((i - 1) % d_int) + 1, e |-> 0]]
      \o [i \in 1..n_nan |-> NaN]

NumericColumns ==
    \* around the thresholds on the number of values and of distinct values
    { Column(0, 1, FALSE, n, d, k) : n \in {29, 30, 31}, d \in {7, 8, 12, 13}, k \in {0, 1} }
    \* around 99.5% of integers
      \cup { Column(h, 1, big, n, d, 0) :
               h \in {0, 1, 2}, big \in BOOLEAN, n \in {199, 200}, d \in {8, 11, 12} }
    \* no integer at all
      \cup { Column(30, d, big, 0, 1, 0) : d \in {8, 10, 12, 13}, big \in BOOLEAN }
    \* around 1% of distinct values
      \cup { Column(100 * d + k, d, FALSE, 0, 1, 0) : d \in {8, 19, 20}, k \in {0, 1} }

InitNumeric ==
    /\ UnitIdle /\ AgeIdle /\ TrendIdle /\ BinIdle /\ BuildIdle /\ PoolIdle /\ ScreenIdle /\ AltIdle /\ PoolAltIdle /\ LabelIdle /\ ViaIdle
    /\ npc = "start"
    /\ series \in NumericColumns
    /\ verdict = Pending

\* verdict = is_continuous_numeric(series)
IsContinuousNumeric ==
    /\ npc = "start"
    /\ verdict' = is_continuous_numeric(series)
    /\ npc' = "done"
    /\ UNCHANGED series
    /\ UNCHANGED notNum

NextNumeric == IsContinuousNumeric
SpecNumeric == InitNumeric /\ [][NextNumeric]_vars

\* a value that is an integer
IntegerValued(x) == x.e >= 0 \/ x.m % Pow10(-x.e) = 0

\* the acceptance rule as the claim states it
StatedContinuous(s) ==
    LET x == SelectSeq(s, LAMBDA v : v # NaN)
        n == Len(x)
        d == Cardinality({ x[i] : i \in DOMAIN x })
        ints == Cardinality({ i \in DOMAIN x : IntegerValued(x[i]) }) IN
    /\ n >= 30
    /\ d >= 8
    /\ ~(ints * 1000 > 995 * n /\ d <= 12)
    /\ ~(d * 100 < n /\ d < 20)

\* C22: is_continuous_numeric accepts a column iff n >= 30 and d >= 8 and
\* not (the fraction of integer-valued values exceeds 99.5% and d <= 12)
\* and not (d / n < 1% and d < 20), n being the number of non-missing
\* values and d the number of distinct ones.
C22_AsStated == npc = "done" => (verdict <=> StatedContinuous(series))

\* the stated rule is the rule of the code on every column whose values
\* are below 1000 in size
SmallValuesAgree ==
    (npc = "done" /\ \A i \in DOMAIN series : series[i] = NaN \/ AbsInt(series[i].m) < 10000)
        => (verdict <=> StatedContinuous(series))

MaxSubjects == 31     \* rows of a raw file

SEQN == <<"S","E","Q","N">>

\* the content of a column of a raw file, by kind
xpt_column(kind) ==
    [i \in 1..MaxSubjects |->
        CASE kind = "seqn" -> Num(i)
          [] kind = "continuous" -> [m |-> 50 + i, e |-> -1]
          [] kind = "coded" -> [m |-> 1 + (i % 3), e |-> 0]
          [] kind = "sick_only" -> IF i = 1 THEN NaN ELSE [m |-> 50 + i, e |-> -1]]

\* read_xpt_columns, for a readable file
read_xpt_columns(file) == [c \in DOMAIN file.columns |-> xpt_column(file.columns[c])]

\* normalize_seqn
normalize_seqn(df) == [i \in DOMAIN df[SEQN] |-> IF df[SEQN][i] = NaN THEN NA ELSE [int |-> df[SEQN][i].v]]

\* s.startswith(pre), s.endswith(suf)
has_prefix(s, pre) == Len(s) >= Len(pre) /\ SubSeq(s, 1, Len(pre)) = pre
has_suffix(s, suf) == Len(s) >= Len(suf) /\ SubSeq(s, Len(s) - Len(suf) + 1, Len(s)) = suf

RIDAGEYR == <<"R","I","D","A","G","E","Y","R">>

\* the patterns of collect_demo_files: DEMO*.xpt, P_DEMO.xpt, DEMO_L.xpt, CDEMO*.xpt
is_demo_name(fname) ==
    LET xpt == <<".","x","p","t">> IN
    \/ Len(fname) >= 8 /\ has_prefix(fname, <<"D","E","M","O">>) /\ has_suffix(fname, xpt)
    \/ fname = <<"P","_","D","E","M","O">> \o xpt
    \/ Len(fname) >= 9 /\ has_prefix(fname, <<"C","D","E","M","O">>) /\ has_suffix(fname, xpt)

\* collect_demo_files: the paths of the demographics files below raw
collect_demo_files(raw) == { q \in DOMAIN raw : is_demo_name(q[2]) }

\* load_demographics raises when no demographics file is readable and has the
\* columns SEQN and RIDAGEYR
load_demographics_raises(raw) ==
    \A q \in collect_demo_files(raw) :
        \/ ~raw[q].readable
        \/ SEQN \notin DOMAIN raw[q].columns
        \/ RIDAGEYR \notin DOMAIN raw[q].columns


-----------------------------------------------------------------------------
(* build_analysis_dataset.py: write_long_dataset                           *)

\* the order of two urls as strings: the urls share their prefix up to the
\* directory, "Data/Nhanes/Public/<year>/DataFiles/" precedes the directory
\* "Nhanes/<cycle>/" of an url of the older layout, then the year and the file
\* name decide
UrlLess(a, b) ==
    IF a.public # b.public THEN a.public
    ELSE a.year < b.year \/ (a.year = b.year /\ StrLess(a.fname, b.fname))

RECURSIVE SortUrls(_)
SortUrls(S) ==
    IF S = {} THEN <<>>
    ELSE LET lo == CHOOSE a \in S : \A b \in S : a = b \/ UrlLess(a, b) IN
         <<lo>> \o SortUrls(S \ {lo})

\* drop_duplicates(subset=["xpt_url", "variable_name"]) of the rows q, given
\* the keys seen so far
RECURSIVE drop_duplicate_rows(_, _)
drop_duplicate_rows(q, seen) ==
    IF q = <<>> THEN <<>>
    ELSE LET k == <<Head(q).xpt_url, Head(q).variable_name>> IN
         IF k \in seen THEN drop_duplicate_rows(Tail(q), seen)
         ELSE <<Head(q)>> \o drop_duplicate_rows(Tail(q), seen \cup {k})

\* blood with the duplicates dropped by variable_name alone
blood_rows_by_name(manifest) ==
    LET b == blood_candidates(manifest)
        idx == { i \in DOMAIN b : \A j \in 1..(i - 1) : b[j].variable_name # b[i].variable_name }
        nth(k) == CHOOSE i \in idx : Cardinality({ j \in idx : j < i }) = k - 1 IN
    [k \in 1..Cardinality(idx) |-> b[nth(k)]]

\* blood, after the duplicates are dropped
blood_rows(manifest) == drop_duplicate_rows(blood_candidates(manifest), {})

\* file_meta.loc[url]
file_meta(blood, url) ==
    blood[CHOOSE i \in DOMAIN blood : blood[i].xpt_url = url /\ \A j \in 1..(i - 1) : blood[j].xpt_url # url]

\* vars_by_url[url]
vars_by_url(blood, url) ==
    LET g == SelectSeq(blood, LAMBDA r : r.xpt_url = url) IN
    [i \in DOMAIN g |-> [variable_name |-> g[i].variable_name, variable_desc |-> g[i].variable_desc]]

\* the keys of vars_by_url, in the order of groupby("xpt_url")
urls_of(blood) == SortUrls({ blood[i].xpt_url : i \in DOMAIN blood })

\* re.search(r"/Public/(\d{4})/DataFiles/", url): the match with its group,
\* or None when the url has no such directory
url_search(url) == IF url.public THEN [group1 |-> url.year] ELSE None

\* int(re.search(...).group(1)), for an url that matches
url_year(url) == url_search(url).group1

\* raw_dir / str(year) / fname
xpt_path(url) == <<url_year(url), url.fname>>

\* participants[participants["cycle_start_year"] == year]
people_of(parts, year) == SelectSeq(parts, LAMBDA p : p.cycle_start_year = year)

\* the four tests that make the loop skip a file
file_skipped(raw, parts, url) ==
    IF xpt_path(url) \notin DOMAIN raw THEN TRUE
    ELSE IF ~raw[xpt_path(url)].readable THEN TRUE
    ELSE IF SEQN \notin DOMAIN raw[xpt_path(url)].columns THEN TRUE
    ELSE people_of(parts, url_year(url)) = <<>>

\* var in pooling_map, pooling_map[var], for the rows pm of the pooling map
in_pooling_map(pm, var) == \E i \in DOMAIN pm : pm[i].variable_name = var
pooling_map(pm, var) == pm[CHOOSE i \in DOMAIN pm : pm[i].variable_name = var]

\* var.startswith("WT")
starts_with_WT(var) == Len(var) >= 2 /\ var[1] = "W" /\ var[2] = "T"

\* the rule chain with the comment rule tried last
screen_reason_comment_last(pm, df, var, vdesc) ==
    IF var \notin DOMAIN df THEN "missing_in_file"
    ELSE IF var = SEQN \/ starts_with_WT(var) THEN "id_or_weight"
    ELSE IF ~in_pooling_map(pm, var) THEN "no_pool_map"
    ELSE IF ~is_continuous_numeric(df[var]) THEN "non_continuous_numeric"
    ELSE IF is_comment_or_code_variable(var, vdesc) THEN "comment_or_code"
    ELSE ""

\* the reason found by the rule chain, "" when no rule applies
screen_reason(pm, df, var, vdesc) ==
    IF var \notin DOMAIN df THEN "missing_in_file"
    ELSE IF var = SEQN \/ starts_with_WT(var) THEN "id_or_weight"
    ELSE IF is_comment_or_code_variable(var, vdesc) THEN "comment_or_code"
    ELSE IF ~in_pooling_map(pm, var) THEN "no_pool_map"
    ELSE IF ~is_continuous_numeric(df[var]) THEN "non_continuous_numeric"
    ELSE ""

\* tmp: the rows with a subject id and a value, joined to people, healthy only
healthy_rows(df, people, var) ==
    LET seqn == normalize_seqn(df)
        all == [i \in DOMAIN seqn |-> [seqn |-> seqn[i], value |-> df[var][i]]]
        tmp == SelectSeq(all, LAMBDA r : r.seqn # NA /\ r.value # NaN)
        joined(r) == LET ps == SelectSeq(people, LAMBDA p : p.seqn = r.seqn) IN
                     [k \in DOMAIN ps |->
                        [seqn |-> r.seqn, value |-> r.value, age_years |-> ps[k].age_years,
                         sex |-> ps[k].sex, healthy_flag |-> ps[k].healthy_flag,
                         exclusion_reason |-> ps[k].exclusion_reason]] IN
    SelectSeq(Concat([i \in DOMAIN tmp |-> joined(tmp[i])]), LAMBDA r : r.healthy_flag)

\* the rows written for a kept variable
emitted_rows(tmp, m, var, pool) ==
    [i \in DOMAIN tmp |->
        [seqn |-> tmp[i].seqn, age_years |-> tmp[i].age_years, sex |-> tmp[i].sex,
         cycle_label |-> m.cycle_label, cycle_start_year |-> m.cycle_start_year,
         cycle_end_year |-> m.cycle_end_year,
         biomarker_id |-> pool.pooled_id, variable_name |-> var,
         biomarker_name |-> pool.pooled_name, source_data_file |-> m.data_file_name,
         value |-> IF pool.conversion_factor_to_pooled_unit # One
                   THEN Times(tmp[i].value, pool.conversion_factor_to_pooled_unit)
                   ELSE tmp[i].value,
         unit |-> pool.pooled_unit,
         healthy_flag |-> tmp[i].healthy_flag, exclusion_reason |-> tmp[i].exclusion_reason]]

\* a screening record of an excluded variable
excluded_record(year, m, v, reason) ==
    [cycle_start_year |-> year, data_file_name |-> m.data_file_name,
     variable_name |-> v.variable_name, variable_desc |-> str(v.variable_desc),
     screen_result |-> "excluded", reason |-> reason]

\* a screening record of a kept variable
kept_record(year, m, v, biomarker_id) ==
    [cycle_start_year |-> year, data_file_name |-> m.data_file_name,
     variable_name |-> v.variable_name, variable_desc |-> str(v.variable_desc),
     screen_result |-> "kept", reason |-> "", pooled_id |-> biomarker_id]

\* the outcome of screening the variable v of the file at url: the reason
\* ("" when no rule applies) and the healthy rows of a variable that passed
\* the rule chain
screen_outcome(pm, raw, parts, url, v) ==
    LET outcome(df, reason) ==
            IF reason # "" THEN [reason |-> reason, tmp |-> <<>>]
            ELSE LET rows(tmp) == [reason |-> IF tmp = <<>> THEN "no_healthy_data" ELSE "", tmp |-> tmp] IN
                 CHOOSE out \in { rows(tmp) :
                                   tmp \in {healthy_rows(df, people_of(parts, url_year(url)), v.variable_name)} } : TRUE
        screened(df) ==
            CHOOSE out \in { outcome(df, reason) :
                              reason \in {screen_reason(pm, df, v.variable_name, str(v.variable_desc))} } : TRUE IN
    screened(read_xpt_columns(raw[xpt_path(url)]))

\* the screening records of a run that reaches the end of its loop, as the
\* set of (file, variable, reason), the reason of a kept variable being ""
screening(manifest, raw, parts) ==
    LET blood == blood_rows(manifest)
        pm == build_pooling_map(manifest)
        opened == { u \in { blood[i].xpt_url : i \in DOMAIN blood } : ~file_skipped(raw, parts, u) }
        of(u) == LET vs == vars_by_url(blood, u) IN
                 { [data_file_name |-> file_meta(blood, u).data_file_name,
                    variable_name |-> vs[k].variable_name,
                    reason |-> screen_outcome(pm, raw, parts, u, vs[k]).reason] : k \in DOMAIN vs } IN
    UNION { of(u) : u \in opened }

\* "|".join(q)
RECURSIVE JoinBar(_)
JoinBar(q) ==
    IF q = <<>> THEN <<>>
    ELSE IF Len(q) = 1 THEN q[1]
    ELSE q[1] \o <<"|">> \o JoinBar(Tail(q))

\* sort_values("biomarker_name"), equal names staying in their order
RECURSIVE sort_by_biomarker_name(_)
sort_by_biomarker_name(q) ==
    IF q = <<>> THEN <<>>
    ELSE LET i == CHOOSE k \in DOMAIN q :
                    /\ \A j \in DOMAIN q : ~StrLess(q[j].biomarker_name, q[k].biomarker_name)
                    /\ \A j \in 1..(k - 1) : StrLess(q[k].biomarker_name, q[j].biomarker_name) IN
         <<q[i]>> \o sort_by_biomarker_name(SubSeq(q, 1, i - 1) \o SubSeq(q, i + 1, Len(q)))

\* the catalog built from every variable of the pooling map, kept or not
build_catalog_unfiltered(blood, pm) ==
    LET kept == SelectSeq(blood, LAMBDA r : in_pooling_map(pm, r.variable_name))
        kept_from_manifest ==
            [i \in DOMAIN kept |->
                [data_file_name |-> kept[i].data_file_name,
                 variable_name |-> kept[i].variable_name,
                 pooled_id |-> pooling_map(pm, kept[i].variable_name).pooled_id,
                 pooled_name |-> pooling_map(pm, kept[i].variable_name).pooled_name,
                 pooled_unit |-> pooling_map(pm, kept[i].variable_name).pooled_unit]]
        ids == SortStrings({ kept_from_manifest[i].pooled_id : i \in DOMAIN kept_from_manifest })
        row(id) ==
            LET g == SelectSeq(kept_from_manifest, LAMBDA r : r.pooled_id = id)
                files == { g[i].data_file_name : i \in DOMAIN g }
                variables == { g[i].variable_name : i \in DOMAIN g } IN
            [biomarker_id |-> id, variable_name |-> id,
             biomarker_name |-> g[1].pooled_name, unit |-> g[1].pooled_unit,
             source_file_count |-> Cardinality(files),
             source_files |-> JoinBar(SortStrings(files)),
             source_variable_count |-> Cardinality(variables),
             source_variables |-> JoinBar(SortStrings(variables))] IN
    sort_by_biomarker_name([k \in DOMAIN ids |-> row(ids[k])])

\* the catalog built from the kept variables, for the rows pm of the pooling map
build_catalog(blood, pm) ==
    LET kept == SelectSeq(blood, LAMBDA r : r.variable_name \in kept_variables)
        merged == [i \in DOMAIN kept |->
                     [data_file_name |-> kept[i].data_file_name,
                      variable_name |-> kept[i].variable_name,
                      pooled_id |-> pooling_map(pm, kept[i].variable_name).pooled_id,
                      pooled_name |-> pooling_map(pm, kept[i].variable_name).pooled_name,
                      pooled_unit |-> pooling_map(pm, kept[i].variable_name).pooled_unit]]
        kept_from_manifest == SelectSeq(merged, LAMBDA r : r.pooled_id \in kept_pooled_ids)
        ids == SortStrings({ kept_from_manifest[i].pooled_id : i \in DOMAIN kept_from_manifest })
        row(id) ==
            LET g == SelectSeq(kept_from_manifest, LAMBDA r : r.pooled_id = id)
                files == { g[i].data_file_name : i \in DOMAIN g }
                variables == { g[i].variable_name : i \in DOMAIN g } IN
            [biomarker_id |-> id, variable_name |-> id,
             biomarker_name |-> g[1].pooled_name, unit |-> g[1].pooled_unit,
             source_file_count |-> Cardinality(files),
             source_files |-> JoinBar(SortStrings(files)),
             source_variable_count |-> Cardinality(variables),
             source_variables |-> JoinBar(SortStrings(variables))] IN
    sort_by_biomarker_name([k \in DOMAIN ids |-> row(ids[k])])


-----------------------------------------------------------------------------
(* Inputs of a build: manifests, raw directories and participant tables    *)

MaxManifestRows == 2     \* rows of the manifest

LBXGLU == <<"L","B","X","G","L","U">>
LBXSGL == <<"L","B","X","S","G","L">>
LBXIN == <<"L","B","X","I","N">>
LBDGLC == <<"L","B","D","G","L","C">>
WTSAF2YR == <<"W","T","S","A","F","2","Y","R">>
URXUMA == <<"U","R","X","U","M","A">>

D_glucose_mg_dl == <<"G","l","u","c","o","s","e"," ","(","m","g","/","d","L",")">>
D_glucose_g_l == <<"G","l","u","c","o","s","e"," ","(","g","/","L",")">>
D_glucose_mmol_l == <<"G","l","u","c","o","s","e"," ","(","m","m","o","l","/","L",")">>
D_glucose == <<"G","l","u","c","o","s","e">>
D_glucose_raw == <<"G","l","u","c","o","s","e"," ","(","r","a","w","_",")">>
D_insulin == <<"I","n","s","u","l","i","n",","," ","(",MicroSign,"U","/","m","L",")">>
D_comment == <<"G","l","u","c","o","s","e"," ","c","o","m","m","e","n","t"," ","c","o","d","e">>
D_weight == <<"F","a","s","t","i","n","g"," ","w","e","i","g","h","t">>
D_albumin == <<"A","l","b","u","m","i","n",","," ","u","r","i","n","e"," ","(","u","g","/","m","L",")">>

\* the files a manifest row may name; the url of the third has the older
\* layout, without the directory /Public/<year>/DataFiles/
ManifestFiles ==
    << [xpt_url |-> [public |-> TRUE, year |-> 1999, fname |-> <<"L","A","B","1","0","A","M",".","X","P","T">>],
        data_file_name |-> <<"L","A","B","1","0","A","M">>, cycle_label |-> "1999-2000",
        cycle_start_year |-> 1999, cycle_end_year |-> 2000],
       [xpt_url |-> [public |-> TRUE, year |-> 2001, fname |-> <<"L","1","0","A","M","_","B",".","X","P","T">>],
        data_file_name |-> <<"L","1","0","A","M","_","B">>, cycle_label |-> "2001-2002",
        cycle_start_year |-> 2001, cycle_end_year |-> 2002],
       [xpt_url |-> [public |-> FALSE, year |-> 2003, fname |-> <<"L","1","0","A","M","_","C",".","X","P","T">>],
        data_file_name |-> <<"L","1","0","A","M","_","C">>, cycle_label |-> "2003-2004",
        cycle_start_year |-> 2003, cycle_end_year |-> 2004] >>

\* the variable names a manifest row may carry, and the descriptions of each
ManifestNames == << LBXGLU, LBXSGL, LBXIN, LBDGLC, WTSAF2YR, URXUMA >>
ManifestDescs ==
    << { D_glucose_mg_dl, D_glucose_g_l, D_glucose_mmol_l, D_glucose },
       { D_glucose_mg_dl, D_glucose_g_l, D_glucose_raw },
       { D_insulin, NoDesc }, {D_comment}, {D_weight}, {D_albumin} >>

\* the rows a manifest may hold; the urine variable is no blood candidate
ManifestRow(f, v, desc) ==
    [xpt_url |-> ManifestFiles[f].xpt_url, data_file_name |-> ManifestFiles[f].data_file_name,
     cycle_label |-> ManifestFiles[f].cycle_label,
     cycle_start_year |-> ManifestFiles[f].cycle_start_year,
     cycle_end_year |-> ManifestFiles[f].cycle_end_year,
     variable_name |-> ManifestNames[v], variable_desc |-> desc,
     is_blood_candidate |-> ManifestNames[v] # URXUMA]

\* the rows listed for a file: every variable under each of its descriptions
\* for the first two files, one variable for the third
ManifestRowsOf(f) ==
    IF f < 3 THEN UNION { { ManifestRow(f, v, desc) : desc \in ManifestDescs[v] } : v \in DOMAIN ManifestNames }
    ELSE { ManifestRow(f, 1, D_glucose_mg_dl) }

\* the position of a row in the order in which a manifest lists its rows: by
\* file, then by variable
ManifestRank(r) ==
    Len(ManifestNames) * (CHOOSE f \in DOMAIN ManifestFiles : ManifestFiles[f].xpt_url = r.xpt_url)
        + (CHOOSE v \in DOMAIN ManifestNames : ManifestNames[v] = r.variable_name)

\* the columns of a complete raw file
FullColumns ==
    (SEQN :> "seqn") @@ (LBXGLU :> "continuous") @@ (LBXSGL :> "continuous")
        @@ (LBXIN :> "continuous") @@ (LBDGLC :> "coded") @@ (WTSAF2YR :> "continuous")

Path1999 == xpt_path(ManifestFiles[1].xpt_url)
Path2001 == xpt_path(ManifestFiles[2].xpt_url)
PathDemo == <<1999, <<"D","E","M","O",".","x","p","t">>>>

FullFile == [readable |-> TRUE, columns |-> FullColumns]
DemoFile == [readable |-> TRUE, columns |-> (SEQN :> "seqn") @@ (RIDAGEYR :> "coded")]

\* the participants of one cycle: a healthy subject and an excluded one
Cohort(year) ==
    << [seqn |-> [int |-> 1], age_years |-> 34, sex |-> "Male", healthy_flag |-> TRUE,
        exclusion_reason |-> "", cycle_start_year |-> year],
       [seqn |-> [int |-> 2], age_years |-> 61, sex |-> "Female", healthy_flag |-> FALSE,
        exclusion_reason |-> "diabetes", cycle_start_year |-> year] >>

BothCohorts == Cohort(1999) \o Cohort(2001)

\* the raw directories with the participant tables built from them:
\* complete; the second file absent, unreadable, or without SEQN; no
\* participant of the second cycle; a coded and an absent column; a column
\* without healthy subjects; no demographics file; a demographics file
\* without RIDAGEYR
BuildInputs ==
    { [raw_dir |-> (PathDemo :> DemoFile) @@ (Path1999 :> FullFile) @@ (Path2001 :> FullFile),
       participants |-> BothCohorts],
      [raw_dir |-> (PathDemo :> DemoFile) @@ (Path1999 :> FullFile), participants |-> BothCohorts],
      [raw_dir |-> (PathDemo :> DemoFile) @@ (Path1999 :> FullFile)
                       @@ (Path2001 :> [readable |-> FALSE, columns |-> FullColumns]),
       participants |-> BothCohorts],
      [raw_dir |-> (PathDemo :> DemoFile) @@ (Path1999 :> FullFile)
                       @@ (Path2001 :> [readable |-> TRUE,
                                        columns |-> [c \in DOMAIN FullColumns \ {SEQN} |-> FullColumns[c]]]),
       participants |-> BothCohorts],
      [raw_dir |-> (PathDemo :> DemoFile) @@ (Path1999 :> FullFile) @@ (Path2001 :> FullFile),
       participants |-> Cohort(1999)],
      [raw_dir |-> (PathDemo :> DemoFile)
                       @@ (Path1999 :> [readable |-> TRUE,
                                        columns |-> [c \in DOMAIN FullColumns \ {LBXIN} |->
                                                       IF c = LBXSGL THEN "coded" ELSE FullColumns[c]]])
                       @@ (Path2001 :> FullFile),
       participants |-> BothCohorts],
      [raw_dir |-> (PathDemo :> DemoFile)
                       @@ (Path1999 :> [readable |-> TRUE,
                                        columns |-> [FullColumns EXCEPT ![LBXGLU] = "sick_only"]])
                       @@ (Path2001 :> FullFile),
       participants |-> BothCohorts],
      [raw_dir |-> (Path1999 :> FullFile) @@ (Path2001 :> FullFile), participants |-> <<>>],
      [raw_dir |-> (PathDemo :> [readable |-> TRUE, columns |-> (SEQN :> "seqn")])
                       @@ (Path1999 :> FullFile) @@ (Path2001 :> FullFile),
       participants |-> <<>>] }

\* the names of the output files
ParticipantsFile == "participant_health_flags.parquet"
AvailabilityFile == "health_rule_availability_by_cycle.csv"
LongFile == "biomarker_long.parquet"
ScreeningFile == "variable_screening_summary.csv"
CatalogParquet == "biomarker_catalog.parquet"
CatalogCsv == "biomarker_catalog.csv"

InitBuild ==
    /\ UnitIdle /\ AgeIdle /\ TrendIdle /\ BinIdle /\ PoolIdle /\ ScreenIdle /\ AltIdle /\ NumIdle /\ PoolAltIdle /\ LabelIdle /\ ViaIdle
    /\ wpc = "read"
    /\ lab_manifest = <<>> /\ raw_dir = <<>> /\ participants = <<>>
    /\ pooling_map_df = <<>> /\ url_queue = <<>> /\ cur_url = Pending /\ var_queue = <<>>
    /\ long_table = <<>> /\ screen_rows = <<>> /\ kept_variables = {} /\ kept_pooled_ids = {}
    /\ n_rows = 0 /\ n_files = 0 /\ catalog = <<>> /\ returned = Pending /\ written = {}

\* lab_manifest = pd.read_parquet(args.manifest), one row at a time
ReadManifestRow ==
    /\ wpc = "read"
    /\ Len(lab_manifest) < MaxManifestRows
    /\ \E f \in DOMAIN ManifestFiles :
        \E r \in ManifestRowsOf(f) :
            /\ lab_manifest # <<>> => ManifestRank(lab_manifest[Len(lab_manifest)]) <= ManifestRank(r)
            /\ lab_manifest' = Append(lab_manifest, r)
    /\ UNCHANGED <<wpc, raw_dir, participants, pooling_map_df, url_queue, cur_url, var_queue,
                   long_table, screen_rows, kept_variables, kept_pooled_ids, n_rows, n_files,
                   catalog, returned, written>>
    /\ UNCHANGED notBuild

\* raw_dir = Path(args.raw); participants, availability = build_participant_table(raw_dir),
\* and the two files written from them; the exception of load_demographics
\* ends the run
BuildParticipantTable ==
    /\ wpc = "read"
    /\ \E w \in BuildInputs :
        /\ raw_dir' = w.raw_dir
        /\ IF load_demographics_raises(w.raw_dir)
           THEN /\ wpc' = "failed"
                /\ UNCHANGED <<participants, written>>
           ELSE /\ participants' = w.participants
                /\ written' = {ParticipantsFile, AvailabilityFile}
                /\ wpc' = "ready"
    /\ UNCHANGED <<lab_manifest, pooling_map_df, url_queue, cur_url, var_queue,
                   long_table, screen_rows, kept_variables, kept_pooled_ids, n_rows, n_files,
                   catalog, returned>>
    /\ UNCHANGED notBuild

\* write_long_dataset up to its loop: the pooling map is built and the files
\* are queued; the exception of build_pooling_map ends the run
BeginWriteLongDataset ==
    /\ wpc = "ready"
    /\ IF build_pooling_map_raises(lab_manifest)
       THEN /\ wpc' = "failed"
            /\ UNCHANGED <<pooling_map_df, url_queue>>
       ELSE /\ pooling_map_df' = build_pooling_map(lab_manifest)
            /\ url_queue' = urls_of(blood_rows(lab_manifest))
            /\ wpc' = "files"
    /\ UNCHANGED <<lab_manifest, raw_dir, participants, cur_url, var_queue,
                   long_table, screen_rows, kept_variables, kept_pooled_ids, n_rows, n_files,
                   catalog, returned, written>>
    /\ UNCHANGED notBuild

\* an iteration of the loop over the files whose url has no year: the
\* exception of re.search(...).group(1) ends the run
RaiseOnUrl ==
    /\ wpc = "files"
    /\ url_queue # <<>>
    /\ url_search(Head(url_queue)) = None
    /\ cur_url' = Head(url_queue)
    /\ wpc' = "failed"
    /\ UNCHANGED <<lab_manifest, raw_dir, participants, pooling_map_df, url_queue, var_queue,
                   long_table, screen_rows, kept_variables, kept_pooled_ids, n_rows, n_files,
                   catalog, returned, written>>
    /\ UNCHANGED notBuild

\* an iteration of the loop over the files that ends in a `continue`
SkipFile ==
    /\ wpc = "files"
    /\ url_queue # <<>>
    /\ url_search(Head(url_queue)) # None
    /\ file_skipped(raw_dir, participants, Head(url_queue))
    /\ cur_url' = Head(url_queue)
    /\ url_queue' = Tail(url_queue)
    /\ UNCHANGED <<wpc, lab_manifest, raw_dir, participants, pooling_map_df, var_queue,
                   long_table, screen_rows, kept_variables, kept_pooled_ids, n_rows, n_files,
                   catalog, returned, written>>
    /\ UNCHANGED notBuild

\* an iteration of the loop over the files that reaches the loop over its variables
OpenFile ==
    /\ wpc = "files"
    /\ url_queue # <<>>
    /\ url_search(Head(url_queue)) # None
    /\ ~file_skipped(raw_dir, participants, Head(url_queue))
    /\ cur_url' = Head(url_queue)
    /\ url_queue' = Tail(url_queue)
    /\ var_queue' = vars_by_url(blood_rows(lab_manifest), Head(url_queue))
    /\ wpc' = "vars"
    /\ UNCHANGED <<lab_manifest, raw_dir, participants, pooling_map_df,
                   long_table, screen_rows, kept_variables, kept_pooled_ids, n_rows, n_files,
                   catalog, returned, written>>
    /\ UNCHANGED notBuild

\* an iteration of the loop over the variables that excludes the variable
ExcludeVariable ==
    /\ wpc = "vars"
    /\ var_queue # <<>>
    /\ \E o \in {screen_outcome(pooling_map_df, raw_dir, participants, cur_url, Head(var_queue))} :
        /\ o.reason # ""
        /\ screen_rows' = Append(screen_rows,
                                 excluded_record(url_year(cur_url), file_meta(blood_rows(lab_manifest), cur_url),
                                                 Head(var_queue), o.reason))
    /\ var_queue' = Tail(var_queue)
    /\ UNCHANGED <<wpc, lab_manifest, raw_dir, participants, pooling_map_df, url_queue, cur_url,
                   long_table, kept_variables, kept_pooled_ids, n_rows, n_files,
                   catalog, returned, written>>
    /\ UNCHANGED notBuild

\* the iteration that keeps a variable, with a writer that starts the long
\* table anew each time instead of appending to it
KeepVariable_overwriting ==
    /\ wpc = "vars"
    /\ var_queue # <<>>
    /\ \E o \in {screen_outcome(pooling_map_df, raw_dir, participants, cur_url, Head(var_queue))} :
        /\ o.reason = ""
        /\ LET v == Head(var_queue)
               m == file_meta(blood_rows(lab_manifest), cur_url)
               pool == pooling_map(pooling_map_df, v.variable_name) IN
           /\ long_table' = emitted_rows(o.tmp, m, v.variable_name, pool)
           /\ n_rows' = n_rows + Len(o.tmp)
           /\ kept_variables' = kept_variables \cup {v.variable_name}
           /\ kept_pooled_ids' = kept_pooled_ids \cup {pool.pooled_id}
           /\ screen_rows' = Append(screen_rows, kept_record(url_year(cur_url), m, v, pool.pooled_id))
    /\ written' = written \cup {LongFile}
    /\ var_queue' = Tail(var_queue)
    /\ UNCHANGED <<wpc, lab_manifest, raw_dir, participants, pooling_map_df, url_queue, cur_url,
                   n_files, catalog, returned>>
    /\ UNCHANGED notBuild

\* an iteration of the loop over the variables that keeps the variable; the
\* first one opens the writer of the long table
KeepVariable ==
    /\ wpc = "vars"
    /\ var_queue # <<>>
    /\ \E o \in {screen_outcome(pooling_map_df, raw_dir, participants, cur_url, Head(var_queue))} :
        /\ o.reason = ""
        /\ LET v == Head(var_queue)
               m == file_meta(blood_rows(lab_manifest), cur_url)
               pool == pooling_map(pooling_map_df, v.variable_name) IN
           /\ long_table' = long_table \o emitted_rows(o.tmp, m, v.variable_name, pool)
           /\ n_rows' = n_rows + Len(o.tmp)
           /\ kept_variables' = kept_variables \cup {v.variable_name}
           /\ kept_pooled_ids' = kept_pooled_ids \cup {pool.pooled_id}
           /\ screen_rows' = Append(screen_rows, kept_record(url_year(cur_url), m, v, pool.pooled_id))
    /\ written' = written \cup {LongFile}
    /\ var_queue' = Tail(var_queue)
    /\ UNCHANGED <<wpc, lab_manifest, raw_dir, participants, pooling_map_df, url_queue, cur_url,
                   n_files, catalog, returned>>
    /\ UNCHANGED notBuild

\* the end of an iteration over a file whose variables were screened
CloseFile ==
    /\ wpc = "vars"
    /\ var_queue = <<>>
    /\ n_files' = n_files + 1
    /\ wpc' = "files"
    /\ UNCHANGED <<lab_manifest, raw_dir, participants, pooling_map_df, url_queue, cur_url,
                   var_queue, long_table, screen_rows, kept_variables, kept_pooled_ids, n_rows,
                   catalog, returned, written>>
    /\ UNCHANGED notBuild

\* after the loop: the long table is closed (or written empty), the screening
\* report and the catalog are written and the counts are returned
WriteCatalog ==
    /\ wpc = "files"
    /\ url_queue = <<>>
    /\ catalog' = build_catalog(blood_rows(lab_manifest), pooling_map_df)
    /\ returned' = <<n_rows, n_files, Cardinality(kept_pooled_ids)>>
    /\ written' = written \cup {LongFile, ScreeningFile, CatalogParquet, CatalogCsv}
    /\ wpc' = "done"
    /\ UNCHANGED <<lab_manifest, raw_dir, participants, pooling_map_df, url_queue, cur_url,
                   var_queue, long_table, screen_rows, kept_variables, kept_pooled_ids, n_rows,
                   n_files>>
    /\ UNCHANGED notBuild

NextBuild ==
    \/ ReadManifestRow \/ BuildParticipantTable \/ BeginWriteLongDataset
    \/ RaiseOnUrl \/ SkipFile \/ OpenFile \/ ExcludeVariable \/ KeepVariable \/ CloseFile
    \/ WriteCatalog

SpecBuild == InitBuild /\ [][NextBuild]_vars


-----------------------------------------------------------------------------
(* build_pooling_map applied to a manifest                                 *)

MaxPoolRows == 3     \* rows of the manifest given to build_pooling_map

D_glucose_upper == <<"G","L","U","C","O","S","E"," ","(","M","G","/","D","L",")">>

\* the descriptions a row may carry: units of the same and of another base,
\* two spellings of one unit, no unit, an unknown unit, no description
PoolDescs ==
    << D_glucose_mg_dl, D_glucose_g_l, D_glucose_mmol_l, D_glucose, D_glucose_raw,
       D_glucose_upper, D_insulin, NoDesc >>

\* the rows the manifest may hold, in the order in which it lists them: three
\* blood variables under each description, and the urine variable
PoolRowKinds ==
    [k \in 1..(3 * Len(PoolDescs) + 1) |->
        IF k > 3 * Len(PoolDescs) THEN ManifestRow(1, 6, D_albumin)
        ELSE ManifestRow(1, 1 + ((k - 1) \div Len(PoolDescs)), PoolDescs[1 + ((k - 1) % Len(PoolDescs))])]

InitPool ==
    /\ UnitIdle /\ AgeIdle /\ TrendIdle /\ BinIdle /\ BuildIdle /\ ScreenIdle /\ AltIdle /\ NumIdle /\ PoolAltIdle /\ LabelIdle /\ ViaIdle
    /\ ppc = "read" /\ pool_manifest = <<>> /\ pool_map = <<>>

\* lab_manifest = pd.read_parquet(args.manifest), one row at a time
PoolReadRow ==
    /\ ppc = "read"
    /\ Len(pool_manifest) < MaxPoolRows
    /\ \E k \in DOMAIN PoolRowKinds :
        /\ pool_manifest # <<>> =>
               \E j \in 1..k : PoolRowKinds[j] = pool_manifest[Len(pool_manifest)]
        /\ pool_manifest' = Append(pool_manifest, PoolRowKinds[k])
    /\ UNCHANGED <<ppc, pool_map>>
    /\ UNCHANGED notPool

\* pooling_map_df = build_pooling_map(lab_manifest); its exception ends the run
BuildPoolingMap ==
    /\ ppc = "read"
    /\ IF build_pooling_map_raises(pool_manifest)
       THEN ppc' = "failed" /\ UNCHANGED pool_map
       ELSE ppc' = "built" /\ pool_map' = build_pooling_map(pool_manifest)
    /\ UNCHANGED pool_manifest
    /\ UNCHANGED notPool

NextPool == PoolReadRow \/ BuildPoolingMap

SpecPool == InitPool /\ [][NextPool]_vars


-----------------------------------------------------------------------------
(* build_pooling_map applied to a manifest, and applied again to the same  *)
(* manifest with one row added, removed or altered                         *)

\* the rows a manifest may hold, in the order in which it lists them: three
\* variables, each under descriptions of two biomarkers or two units
PairRowKinds ==
    << ManifestRow(1, 1, D_glucose_mg_dl), ManifestRow(1, 1, D_glucose_g_l),
       ManifestRow(1, 2, D_glucose_g_l), ManifestRow(1, 2, D_glucose), ManifestRow(1, 2, D_insulin),
       ManifestRow(1, 3, D_glucose_mg_dl), ManifestRow(1, 3, D_insulin) >>

PairKind(r) == CHOOSE k \in DOMAIN PairRowKinds : PairRowKinds[k] = r

\* the manifest q with the row r listed at its place
InsertRow(q, r) ==
    LET n == Cardinality({ i \in DOMAIN q : PairKind(q[i]) <= PairKind(r) }) IN
    SubSeq(q, 1, n) \o <<r>> \o SubSeq(q, n + 1, Len(q))

RemoveRow(q, i) == SubSeq(q, 1, i - 1) \o SubSeq(q, i + 1, Len(q))

RECURSIVE PairManifests(_)
PairManifests(n) ==
    IF n = 0 THEN { <<>> }
    ELSE PairManifests(n - 1)
           \cup { InsertRow(q, PairRowKinds[k]) : q \in PairManifests(n - 1), k \in DOMAIN PairRowKinds }

\* the manifests that differ from q in one row
ChangedManifests(q) ==
    ({ RemoveRow(q, i) : i \in DOMAIN q }
       \cup { InsertRow(q, PairRowKinds[k]) : k \in DOMAIN PairRowKinds }
       \cup { InsertRow(RemoveRow(q, i), PairRowKinds[k]) : i \in DOMAIN q, k \in DOMAIN PairRowKinds })
      \ {q}

InitPoolPair ==
    /\ UnitIdle /\ AgeIdle /\ TrendIdle /\ BinIdle /\ BuildIdle /\ ScreenIdle /\ AltIdle /\ NumIdle /\ LabelIdle /\ ViaIdle
    /\ ppc = "read"
    /\ pool_manifest \in PairManifests(MaxPoolRows)
    /\ pool_map = <<>>
    /\ pool_alt = <<>>
    /\ pool_map_alt = <<>>

\* the manifest read by the second run
ChangeManifest ==
    /\ ppc = "built"
    /\ pool_alt' \in ChangedManifests(pool_manifest)
    /\ ppc' = "changed"
    /\ UNCHANGED <<pool_manifest, pool_map, pool_map_alt>>
    /\ UNCHANGED notPoolBoth

\* pooling_map_df = build_pooling_map(lab_manifest) of the second run
RebuildPoolingMap ==
    /\ ppc = "changed"
    /\ IF build_pooling_map_raises(pool_alt)
       THEN ppc' = "failed again" /\ UNCHANGED pool_map_alt
       ELSE ppc' = "rebuilt" /\ pool_map_alt' = build_pooling_map(pool_alt)
    /\ UNCHANGED <<pool_manifest, pool_map, pool_alt>>
    /\ UNCHANGED notPoolBoth

NextPoolPair == BuildPoolingMap \/ ChangeManifest \/ RebuildPoolingMap
SpecPoolPair == InitPoolPair /\ [][NextPoolPair]_vars

BaseKeysOf(pm) == { pm[i].base_key : i \in DOMAIN pm }
EntriesOfBase(pm, b) == { pm[i] : i \in { j \in DOMAIN pm : pm[j].base_key = b } }
NamesOfBase(pm, b) == { e.variable_name : e \in EntriesOfBase(pm, b) }
RowsOfNames(manifest, N) == SelectSeq(manifest, LAMBDA r : r.variable_name \in N)

\* the rows of the variables of the base_key b are the same in both manifests
SameRowsOfBase(b) ==
    LET N == NamesOfBase(pool_map, b) \cup NamesOfBase(pool_map_alt, b) IN
    RowsOfNames(pool_manifest, N) = RowsOfNames(pool_alt, N)

\* C24: pooling is independent across biomarkers: the entries (compat_key,
\* pooled_id, pooled_name, pooled_unit, conversion factor) of the variables
\* of one base_key are the same when rows of variables of other base_keys
\* are added to the manifest, removed from it or altered.
C24_PoolingIndependentAcrossBaseKeys ==
    ppc = "rebuilt" =>
        \A b \in BaseKeysOf(pool_map) \cup BaseKeysOf(pool_map_alt) :
            SameRowsOfBase(b) => EntriesOfBase(pool_map, b) = EntriesOfBase(pool_map_alt, b)

\* two variables pooled under one base_key, one of them converted, and a
\* variable of another base_key in one manifest only
C24_Witness ==
    /\ ppc = "rebuilt"
    /\ \E b \in BaseKeysOf(pool_map) :
        /\ SameRowsOfBase(b)
        /\ Cardinality(EntriesOfBase(pool_map, b)) >= 2
        /\ \E e \in EntriesOfBase(pool_map_alt, b) : e.conversion_factor_to_pooled_unit # One
    /\ BaseKeysOf(pool_map) # BaseKeysOf(pool_map_alt)

-----------------------------------------------------------------------------
(* The screening of write_long_dataset run twice on the same raw files and *)
(* participants, the second time with the rows of the manifest reordered   *)

MaxScreenRows == 2     \* rows of the manifest of the two runs

\* the rows the manifest may hold: for each of the first two files, three
\* variables under two or three descriptions each
ScreenRowKinds ==
    { ManifestRow(f, k[1], k[2]) :
        f \in {1, 2},
        k \in { <<1, D_glucose_mg_dl>>, <<1, D_glucose_g_l>>, <<1, D_glucose>>,
                <<3, D_insulin>>, <<3, NoDesc>>, <<4, D_comment>>, <<4, D_glucose>> } }

\* the raw directories in which both files pass the four tests of the loop
ScreenInputs ==
    { w \in BuildInputs :
        /\ ~load_demographics_raises(w.raw_dir)
        /\ \A u \in {ManifestFiles[1].xpt_url, ManifestFiles[2].xpt_url} :
              ~file_skipped(w.raw_dir, w.participants, u) }

\* the orders of n rows
Orders(n) == { q \in [1..n -> 1..n] : \A i, j \in 1..n : q[i] = q[j] => i = j }

\* the manifest with its rows listed in the order q
Reordered(manifest, q) == [i \in DOMAIN manifest |-> manifest[q[i]]]

InitScreen ==
    /\ UnitIdle /\ AgeIdle /\ TrendIdle /\ BinIdle /\ BuildIdle /\ PoolIdle /\ AltIdle /\ NumIdle /\ PoolAltIdle /\ LabelIdle /\ ViaIdle
    /\ spc = "read"
    /\ scr_manifest = <<>> /\ scr_input = Pending /\ scr_order = <<>>
    /\ screened_a = {} /\ screened_b = {}

\* lab_manifest = pd.read_parquet(args.manifest), one row at a time
ScreenReadRow ==
    /\ spc = "read"
    /\ Len(scr_manifest) < MaxScreenRows
    /\ \E r \in ScreenRowKinds :
        /\ scr_manifest # <<>> => ManifestRank(scr_manifest[Len(scr_manifest)]) <= ManifestRank(r)
        /\ scr_manifest' = Append(scr_manifest, r)
    /\ UNCHANGED <<spc, scr_input, scr_order, screened_a, screened_b>>
    /\ UNCHANGED notScreen

\* the first run of write_long_dataset, up to its screening report
RunScreener ==
    /\ spc = "read"
    /\ ~build_pooling_map_raises(scr_manifest)
    /\ \E w \in ScreenInputs :
        /\ scr_input' = w
        /\ screened_a' = screening(scr_manifest, w.raw_dir, w.participants)
    /\ spc' = "once"
    /\ UNCHANGED <<scr_manifest, scr_order, screened_b>>
    /\ UNCHANGED notScreen

\* the second run, on the same files and participants and on the manifest
\* with its rows in some order
RerunScreener ==
    /\ spc = "once"
    /\ \E q \in Orders(Len(scr_manifest)) :
        /\ scr_order' = q
        /\ screened_b' = screening(Reordered(scr_manifest, q), scr_input.raw_dir, scr_input.participants)
    /\ spc' = "twice"
    /\ UNCHANGED <<scr_manifest, scr_input, screened_a>>
    /\ UNCHANGED notScreen

NextScreen == ScreenReadRow \/ RunScreener \/ RerunScreener

SpecScreen == InitScreen /\ [][NextScreen]_vars


-----------------------------------------------------------------------------
(* Claims on the pooling map and on the emitted values                     *)

\* C1 as stated: any two entries of the pooling map with the same pooled_id
\* have the same compat_key and the same base_key, so two distinct
\* (base_key, compat_key) pairs never receive the same pooled_id.
C1_AsStated ==
    \A i, j \in DOMAIN pooling_map_df :
        pooling_map_df[i].pooled_id = pooling_map_df[j].pooled_id =>
            /\ pooling_map_df[i].compat_key = pooling_map_df[j].compat_key
            /\ pooling_map_df[i].base_key = pooling_map_df[j].base_key

\* a = b for two values m * 10^e
SameNumber(a, b) ==
    LET lo == IF a.e < b.e THEN a.e ELSE b.e IN
    a.m * Pow10(a.e - lo) = b.m * Pow10(b.e - lo)

\* the manifest row that lists the variable of the long-table row r for the
\* source file of r
OwnManifestRow(r) ==
    LET blood == blood_rows(lab_manifest) IN
    blood[CHOOSE i \in DOMAIN blood :
            /\ blood[i].data_file_name = r.source_data_file
            /\ blood[i].variable_name = r.variable_name]

\* the value that the source file of r holds for the subject and variable of r
RawValueOf(r) ==
    LET df == read_xpt_columns(raw_dir[xpt_path(OwnManifestRow(r).xpt_url)]) IN
    df[r.variable_name][CHOOSE k \in DOMAIN df[SEQN] : normalize_seqn(df)[k] = r.seqn]

\* the unit in which the source file of r labels the variable of r
OwnUnitOf(r) == parse_terminal_unit(OwnManifestRow(r).variable_desc).unit

\* the factor that converts a value in the unit own to the unit pooled: one
\* for the same unit, the quotient of the densities otherwise, None if there
\* is none
StatedFactor(own, pooled) ==
    IF normalize_unit(own) = normalize_unit(pooled) THEN One ELSE conversion_factor(own, pooled)

\* C2 as stated: the value of every emitted row is the raw value times the
\* factor that converts the unit under which the variable is labelled in the
\* row's own source file to the pooled unit of the row.
C2_AsStated ==
    \A i \in DOMAIN long_table :
        \E f \in {StatedFactor(OwnUnitOf(long_table[i]), long_table[i].unit)} :
            /\ f # None
            /\ SameNumber(long_table[i].value, Times(RawValueOf(long_table[i]), f))


-----------------------------------------------------------------------------
(* Claims on the screening of the variables                                *)

\* the six rules in their stated order
RuleNames ==
    << "missing_in_file", "id_or_weight", "comment_or_code", "no_pool_map",
       "non_continuous_numeric", "no_healthy_data" >>

\* the file at url holds a column named name
HasColumn(url, name) == name \in DOMAIN raw_dir[xpt_path(url)].columns

\* the values of that column
ColumnOf(url, name) == read_xpt_columns(raw_dir[xpt_path(url)])[name]

\* some subject of the file has a value of the column and is a healthy
\* participant of the cycle of the file
HasHealthyValue(url, name) ==
    LET df == read_xpt_columns(raw_dir[xpt_path(url)]) IN
    \E i \in DOMAIN df[SEQN] :
        /\ df[SEQN][i] # NaN
        /\ df[name][i] # NaN
        /\ \E k \in DOMAIN participants :
            /\ participants[k].cycle_start_year = url.year
            /\ participants[k].seqn = [int |-> df[SEQN][i].v]
            /\ participants[k].healthy_flag

\* rule k applies to the variable v of the file at url
RuleApplies(k, url, v) ==
    CASE k = 1 -> ~HasColumn(url, v.variable_name)
      [] k = 2 -> v.variable_name = SEQN \/ has_prefix(v.variable_name, <<"W","T">>)
      [] k = 3 -> is_comment_or_code_variable(v.variable_name, str(v.variable_desc))
      [] k = 4 -> \A i \in DOMAIN pooling_map_df : pooling_map_df[i].variable_name # v.variable_name
      [] k = 5 -> HasColumn(url, v.variable_name) /\ ~is_continuous_numeric(ColumnOf(url, v.variable_name))
      [] k = 6 -> HasColumn(url, v.variable_name) /\ ~HasHealthyValue(url, v.variable_name)

\* the first rule that applies, 0 if none does
FirstRule(url, v) ==
    IF \E k \in 1..6 : RuleApplies(k, url, v)
    THEN CHOOSE k \in 1..6 : RuleApplies(k, url, v) /\ \A j \in 1..(k - 1) : ~RuleApplies(j, url, v)
    ELSE 0

\* the step screens the variable at the head of the queue
ScreensVariable == wpc = "vars" /\ var_queue # <<>> /\ var_queue' = Tail(var_queue)

\* the rows of the long table that come from the variable v of the file at url
RowsOfPair(table, url, v) ==
    SelectSeq(table, LAMBDA r : r.variable_name = v.variable_name
                                /\ r.source_data_file = file_meta(blood_rows(lab_manifest), url).data_file_name)

\* C11: every step that screens a (file, variable) pair records exactly one
\* outcome for it, the pair having none before; the recorded reason is the
\* first rule that applies in the order missing_in_file, id_or_weight,
\* comment_or_code, no_pool_map, non_continuous_numeric, no_healthy_data; the
\* pair is recorded as kept and rows of it are emitted exactly when no rule
\* applies.
C11_ScreeningRuleChain ==
    [][ScreensVariable =>
         \E k \in {FirstRule(cur_url, Head(var_queue))} :
           \E m \in {file_meta(blood_rows(lab_manifest), cur_url)} :
             /\ \A i \in DOMAIN screen_rows :
                   ~(/\ screen_rows[i].data_file_name = m.data_file_name
                     /\ screen_rows[i].variable_name = Head(var_queue).variable_name)
             /\ Len(screen_rows') = Len(screen_rows) + 1
             /\ SubSeq(screen_rows', 1, Len(screen_rows)) = screen_rows
             /\ LET rec == screen_rows'[Len(screen_rows')] IN
                /\ rec.data_file_name = m.data_file_name
                /\ rec.variable_name = Head(var_queue).variable_name
                /\ rec.reason = (IF k = 0 THEN "" ELSE RuleNames[k])
                /\ rec.screen_result = (IF k = 0 THEN "kept" ELSE "excluded")
             /\ IF k = 0
                THEN /\ Len(long_table') > Len(long_table)
                     /\ SubSeq(long_table', 1, Len(long_table)) = long_table
                     /\ RowsOfPair(long_table', cur_url, Head(var_queue)) =
                            SubSeq(long_table', Len(long_table) + 1, Len(long_table'))
                ELSE long_table' = long_table]_vars

\* C11 witness: a finished run that kept one variable, with rows of it in
\* the long table, and excluded another by a rule that is not the first.
C11_Witness ==
    /\ wpc = "done"
    /\ \E i, j \in DOMAIN screen_rows :
        /\ screen_rows[i].screen_result = "kept"
        /\ \E r \in DOMAIN long_table : long_table[r].variable_name = screen_rows[i].variable_name
        /\ screen_rows[j].screen_result = "excluded"
        /\ screen_rows[j].reason \in {"comment_or_code", "no_pool_map", "non_continuous_numeric", "no_healthy_data"}

\* the (file, variable) pair of the manifest row b has a row in the long table
PairHasRows(b) ==
    \E i \in DOMAIN long_table :
        /\ long_table[i].source_data_file = b.data_file_name
        /\ long_table[i].variable_name = b.variable_name

\* the pair of the manifest row b has a screening record with a reason
PairHasReason(b) ==
    \E i \in DOMAIN screen_rows :
        /\ screen_rows[i].data_file_name = b.data_file_name
        /\ screen_rows[i].variable_name = b.variable_name
        /\ screen_rows[i].reason # ""

\* C12 as stated: once write_long_dataset has completed, every blood-candidate
\* (file, variable) pair of the manifest without a row in the long table has
\* a screening record with a non-empty reason, a pair of an absent or
\* unreadable file, of a file without SEQN or without participants included.
C12_AsStated ==
    wpc = "done" =>
        \A i \in DOMAIN lab_manifest :
            lab_manifest[i].is_blood_candidate /\ ~PairHasRows(lab_manifest[i])
                => PairHasReason(lab_manifest[i])

\* the two failures of the whole input: no demographics file can be loaded,
\* no blood-candidate row gives a pooling entry
StructuralFailure == load_demographics_raises(raw_dir) \/ build_pooling_map_raises(lab_manifest)

\* C13 as stated: a defect confined to one file or one variable of the
\* manifest (an absent or unreadable file, a file without SEQN or without
\* participants, an absent column, an empty cohort join, or any other defect
\* of the manifest row) never aborts write_long_dataset: a run whose inputs
\* have no structural failure is never ended by an exception.
C13_AsStated == wpc = "failed" => StructuralFailure

\* the long table, the screening report and the catalog
ResultFiles == {LongFile, ScreeningFile, CatalogParquet, CatalogCsv}

\* C14: a structural failure is fatal and leaves no partial result: when no
\* demographics file with the required columns can be loaded, the build is
\* aborted as soon as the participant table is asked for, and when the
\* manifest has no blood-candidate row, it is aborted as soon as
\* write_long_dataset starts; in both cases neither the long table nor the
\* catalog nor the screening report is written.
C14_StructuralFailureIsFatal ==
    /\ (wpc # "read" /\ load_demographics_raises(raw_dir))
          => (wpc = "failed" /\ written \cap ResultFiles = {})
    /\ (wpc \notin {"read", "ready"} /\ \A i \in DOMAIN lab_manifest : ~lab_manifest[i].is_blood_candidate)
          => (wpc = "failed" /\ written \cap ResultFiles = {})

\* C14 witness: a build aborted by write_long_dataset on a manifest that has
\* rows, none of them a blood candidate, after the participant table was
\* written.
C14_Witness ==
    /\ wpc = "failed"
    /\ lab_manifest # <<>>
    /\ \A i \in DOMAIN lab_manifest : ~lab_manifest[i].is_blood_candidate
    /\ ~load_demographics_raises(raw_dir)
    /\ ParticipantsFile \in written

\* the order that leaves n rows as they are
SameOrder(n) == [i \in 1..n |-> i]

\* a (file, variable) pair is listed twice under two descriptions
ConflictingPair(manifest) ==
    \E i, j \in DOMAIN manifest :
        /\ manifest[i].is_blood_candidate /\ manifest[j].is_blood_candidate
        /\ manifest[i].xpt_url = manifest[j].xpt_url
        /\ manifest[i].variable_name = manifest[j].variable_name
        /\ manifest[i].variable_desc # manifest[j].variable_desc

\* C15 as stated: two runs on the same files and participants give every
\* (file, variable) pair the same outcome and the same reason, in whatever
\* order the manifest lists its rows.
C15_AsStated == spc = "twice" => screened_a = screened_b

\* C15, amended: two runs on the same files and participants give every
\* (file, variable) pair the same outcome and the same reason when the
\* manifest is the same, and also when its rows are listed in another order
\* unless it lists a (file, variable) pair under two descriptions.
C15_ScreeningDeterministic ==
    (spc = "twice" /\ (scr_order = SameOrder(Len(scr_manifest)) \/ ~ConflictingPair(scr_manifest)))
        => screened_a = screened_b

\* C15 witness: a second run on a reordered manifest that lists two files and
\* no pair under two descriptions, with a kept and an excluded pair in the
\* report.
C15_Witness ==
    /\ spc = "twice"
    /\ scr_order # SameOrder(Len(scr_manifest))
    /\ ~ConflictingPair(scr_manifest)
    /\ \E i, j \in DOMAIN scr_manifest : i # j /\ scr_manifest[i].xpt_url # scr_manifest[j].xpt_url
    /\ \E a, b \in screened_b : a.reason = "" /\ b.reason # ""


-----------------------------------------------------------------------------
(* Claims on build_pooling_map                                             *)

\* the unit of the description from which the entry e was derived
UnitOfEntry(e) == parse_terminal_unit(e.variable_desc).unit

\* the stated compat_key of the unit u
StatedCompatKey(u) ==
    CHOOSE key \in { IF x # None THEN x.num_base \o <<"/","v","o","l">>
                     ELSE <<"r","a","w",":">> \o normalize_unit(u) : x \in {parse_unit_signature(u)} } : TRUE

\* both units parse with the same num_base, or both fail to parse (or are
\* empty) and normalize to the same string
SameBucket(u, w) ==
    \E x \in {parse_unit_signature(u)}, y \in {parse_unit_signature(w)} :
        IF x # None /\ y # None THEN x.num_base = y.num_base
        ELSE x = None /\ y = None /\ normalize_unit(u) = normalize_unit(w)

\* C16: the compat_key of every entry is '<num_base>/vol' when its unit
\* parses and 'raw:<normalized unit>' otherwise ('raw:' for no unit); two
\* entries with the same base_key have the same pooled_id whenever their
\* units parse with the same num_base or both normalize to the same
\* unparseable or empty string.
C16_CompatKey ==
    /\ \A i \in DOMAIN pool_map : pool_map[i].compat_key = StatedCompatKey(UnitOfEntry(pool_map[i]))
    /\ \A i, j \in DOMAIN pool_map :
          (/\ pool_map[i].base_key = pool_map[j].base_key
           /\ SameBucket(UnitOfEntry(pool_map[i]), UnitOfEntry(pool_map[j])))
             => pool_map[i].pooled_id = pool_map[j].pooled_id

\* C16 witness: a pooling map with two variables of one base_key whose
\* different units parse with the same num_base, and a variable whose unit
\* does not parse.
C16_Witness ==
    /\ ppc = "built"
    /\ \E i, j \in DOMAIN pool_map :
        /\ i # j
        /\ pool_map[i].base_key = pool_map[j].base_key
        /\ parse_unit_signature(UnitOfEntry(pool_map[i])) # None
        /\ parse_unit_signature(UnitOfEntry(pool_map[j])) # None
        /\ normalize_unit(UnitOfEntry(pool_map[i])) # normalize_unit(UnitOfEntry(pool_map[j]))
        /\ pool_map[i].pooled_id = pool_map[j].pooled_id
    /\ \E k \in DOMAIN pool_map :
        /\ UnitOfEntry(pool_map[k]) # <<>>
        /\ parse_unit_signature(UnitOfEntry(pool_map[k])) = None

\* the compat_keys of the entries with the base_key of e
CompatKeysOf(e) == { pool_map[i].compat_key : i \in { k \in DOMAIN pool_map : pool_map[k].base_key = e.base_key } }

\* the stated suffix of the pooled_id of e: the normalized reference unit,
\* or the compat_key with ':' replaced by '_' when there is no reference unit
StatedSuffix(e) ==
    IF e.pooled_unit # <<>> THEN normalize_unit(e.pooled_unit)
    ELSE ReplaceChar(e.compat_key, ":", "_")

\* C17: the pooled_id of an entry is its plain base_key exactly when its
\* base_key has one compat_key among the entries; otherwise it is the
\* base_key, '__' and the suffix of its sub-group.
C17_PooledId ==
    \A i \in DOMAIN pool_map :
        /\ (pool_map[i].pooled_id = pool_map[i].base_key) <=> (Cardinality(CompatKeysOf(pool_map[i])) = 1)
        /\ Cardinality(CompatKeysOf(pool_map[i])) > 1 =>
              pool_map[i].pooled_id = pool_map[i].base_key \o <<"_","_">> \o StatedSuffix(pool_map[i])

\* C17 witness: a pooling map in which one base_key has two compat_keys, one
\* of a sub-group with a reference unit and one of a sub-group without, and
\* another base_key has one.
C17_Witness ==
    /\ ppc = "built"
    /\ \E i, j, k \in DOMAIN pool_map :
        /\ pool_map[i].base_key = pool_map[j].base_key
        /\ pool_map[i].compat_key # pool_map[j].compat_key
        /\ pool_map[i].pooled_unit # <<>>
        /\ pool_map[j].pooled_unit = <<>>
        /\ Cardinality(CompatKeysOf(pool_map[k])) = 1

\* the number of blood-candidate rows that list the variable of e under the
\* description of e
Support(e) ==
    Cardinality({ i \in DOMAIN pool_manifest :
                    /\ pool_manifest[i].is_blood_candidate
                    /\ pool_manifest[i].variable_name = e.variable_name
                    /\ pool_manifest[i].variable_desc = e.variable_desc })

\* the entries of the sub-group of e
SubGroupOf(e) == { pool_map[i] : i \in { k \in DOMAIN pool_map :
                      pool_map[k].base_key = e.base_key /\ pool_map[k].compat_key = e.compat_key } }

\* the stated factor of e
StatedMemberFactor(e) ==
    IF normalize_unit(UnitOfEntry(e)) = normalize_unit(e.pooled_unit) THEN One
    ELSE conversion_factor(UnitOfEntry(e), e.pooled_unit)

\* C18: every sub-group has a reference, a member of maximal support whose
\* unit is the pooled_unit of all its members and whose factor is 1.0; the
\* factor of every member is 1.0 when its unit normalizes as the reference
\* unit does and conversion_factor(own unit, reference unit) otherwise, which
\* is a positive number.
C18_ReferenceAndFactors ==
    \A i \in DOMAIN pool_map :
        /\ \E ref \in SubGroupOf(pool_map[i]) :
            /\ \A o \in SubGroupOf(pool_map[i]) : Support(o) <= Support(ref)
            /\ \A o \in SubGroupOf(pool_map[i]) : o.pooled_unit = UnitOfEntry(ref)
            /\ ref.conversion_factor_to_pooled_unit = One
        /\ pool_map[i].conversion_factor_to_pooled_unit = StatedMemberFactor(pool_map[i])
        /\ pool_map[i].conversion_factor_to_pooled_unit # None
        /\ pool_map[i].conversion_factor_to_pooled_unit.exp \in Int

\* C18 witness: a sub-group of two members of different support and
\* different units, the member of smaller support having a factor other
\* than 1.0.
C18_Witness ==
    /\ ppc = "built"
    /\ \E i, j \in DOMAIN pool_map :
        /\ pool_map[j] \in SubGroupOf(pool_map[i])
        /\ Support(pool_map[i]) > Support(pool_map[j])
        /\ pool_map[j].pooled_unit = UnitOfEntry(pool_map[i])
        /\ pool_map[j].conversion_factor_to_pooled_unit # One

\* C19: whenever the unit of an entry does not normalize as the reference
\* unit of its sub-group does, conversion_factor(own unit, reference unit)
\* exists, so the fallback to 1.0 is never taken.
C19_FallbackUnreachable ==
    \A i \in DOMAIN pool_map :
        normalize_unit(UnitOfEntry(pool_map[i])) # normalize_unit(pool_map[i].pooled_unit)
            => conversion_factor(UnitOfEntry(pool_map[i]), pool_map[i].pooled_unit) # None

\* C19 witness: a pooling map with an entry whose unit differs from the
\* reference unit of its sub-group, next to an entry of the same base_key
\* in another sub-group.
C19_Witness ==
    /\ ppc = "built"
    /\ \E i, j \in DOMAIN pool_map :
        /\ normalize_unit(UnitOfEntry(pool_map[i])) # normalize_unit(pool_map[i].pooled_unit)
        /\ pool_map[j].base_key = pool_map[i].base_key
        /\ pool_map[j].compat_key # pool_map[i].compat_key

\* the variable names of the blood-candidate rows
BloodNames == { pool_manifest[i].variable_name : i \in { k \in DOMAIN pool_manifest : pool_manifest[k].is_blood_candidate } }

\* the number of blood-candidate rows that list the variable name under the
\* description desc
Occurrences(name, desc) ==
    Cardinality({ i \in DOMAIN pool_manifest :
                    /\ pool_manifest[i].is_blood_candidate
                    /\ pool_manifest[i].variable_name = name
                    /\ pool_manifest[i].variable_desc = desc })

\* the descriptions under which the blood-candidate rows list the name
DescsOf(name) ==
    { pool_manifest[i].variable_desc : i \in { k \in DOMAIN pool_manifest :
          /\ pool_manifest[k].is_blood_candidate
          /\ pool_manifest[k].variable_name = name
          /\ pool_manifest[k].variable_desc # NoDesc } }

\* the entries of the variable name
EntriesOf(name) == { i \in DOMAIN pool_map : pool_map[i].variable_name = name }

\* C20 as stated: the pooling map has exactly one entry for every variable
\* name of the blood-candidate rows, derived from a description of maximal
\* count for that variable.
C20_AsStated ==
    ppc = "built" =>
        \A name \in BloodNames :
            /\ Cardinality(EntriesOf(name)) = 1
            /\ \A i \in EntriesOf(name) : \A d \in DescsOf(name) :
                  Occurrences(name, d) <= Occurrences(name, pool_map[i].variable_desc)

\* C20, amended: the pooling map has exactly one entry for every variable
\* name that a blood-candidate row lists with a description, derived from a
\* description of maximal count for that variable, and no entry for any
\* other name.
C20_OneEntryPerDescribedVariable ==
    ppc = "built" =>
        /\ \A name \in BloodNames :
            /\ Cardinality(EntriesOf(name)) = (IF DescsOf(name) = {} THEN 0 ELSE 1)
            /\ \A i \in EntriesOf(name) :
                  /\ pool_map[i].variable_desc \in DescsOf(name)
                  /\ \A d \in DescsOf(name) :
                        Occurrences(name, d) <= Occurrences(name, pool_map[i].variable_desc)
        /\ \A i \in DOMAIN pool_map : pool_map[i].variable_name \in BloodNames

\* C20 witness: a variable listed twice under one description and once
\* under another, its entry carrying the former.
C20_Witness ==
    /\ ppc = "built"
    /\ \E i \in DOMAIN pool_map : \E d \in DescsOf(pool_map[i].variable_name) :
        /\ d # pool_map[i].variable_desc
        /\ Occurrences(pool_map[i].variable_name, d) = 1
        /\ Occurrences(pool_map[i].variable_name, pool_map[i].variable_desc) = 2

-----------------------------------------------------------------------------
(* compute_binned on tables with bins of up to MaxSubjects values          *)

\* the numbers of values a block of rows may hold, on both sides of 30
BlockSizes == { 1, 2, 29, 30, MaxSubjects }

\* the (biomarker_id, biomarker_name, unit) a block of rows may carry
BlockBiomarkers == { <<1, 1, 1>>, <<1, 2, 1>>, <<1, 1, 2>>, <<2, 1, 1>>, <<2, 2, 2>> }

\* n rows of one biomarker at one age, with the values 1 and 2 in turn
Block(n, b, yrs) ==
    [i \in 1..n |-> [biomarker_id |-> b[1], biomarker_name |-> b[2], unit |-> b[3],
                     age_years |-> yrs, value |-> Num(1 + (i % 2))]]

\* k rows of the first biomarker, aged 20, with a missing value
MissingBlock(k) ==
    [i \in 1..k |-> [biomarker_id |-> 1, biomarker_name |-> 1, unit |-> 1,
                     age_years |-> BinnedAges[1], value |-> NaN]]

\* a block of the first biomarker aged 20, a block of a biomarker aged 20,
\* 24 or 25, and rows without a value
ThresholdTables ==
    { Block(n1, <<1, 1, 1>>, BinnedAges[1]) \o Block(n2, b, BinnedAges[a]) \o MissingBlock(k) :
        n1 \in BlockSizes, n2 \in BlockSizes, b \in BlockBiomarkers, a \in 1..3, k \in 0..1 }

\* df = pd.read_parquet(args.input_path)
InitTable ==
    /\ UnitIdle /\ AgeIdle /\ TrendIdle /\ BuildIdle /\ PoolIdle /\ ScreenIdle /\ AltIdle /\ NumIdle /\ PoolAltIdle /\ LabelIdle /\ ViaIdle
    /\ bpc = "load"
    /\ long_df \in ThresholdTables
    /\ grouped = {}

NextTable == ComputeBinned
SpecTable == InitTable /\ [][NextTable]_vars

\* the number of rows of df with the biomarker_id and age bin of r, and of
\* those with its name and unit as well, that have a value
CountOfBin(df, r) ==
    Cardinality({ i \in DOMAIN df : /\ df[i].biomarker_id = r.biomarker_id
                                    /\ cut(df[i].age_years, edges, labels) = r.age_bin
                                    /\ df[i].value # NaN })
CountOfGroup(df, r) ==
    Cardinality({ i \in DOMAIN df : /\ df[i].biomarker_id = r.biomarker_id
                                    /\ df[i].biomarker_name = r.biomarker_name
                                    /\ df[i].unit = r.unit
                                    /\ cut(df[i].age_years, edges, labels) = r.age_bin
                                    /\ df[i].value # NaN })

\* C27 as stated: the output of compute_binned has at most one row per
\* (biomarker_id, age_bin), and passes_n_threshold of a row is true exactly
\* when the number n of non-missing values of its biomarker_id and age bin
\* is at least 30.
C27_AsStated ==
    bpc = "done" =>
        /\ \A r, s \in grouped :
               r.biomarker_id = s.biomarker_id /\ r.age_bin = s.age_bin => r = s
        /\ \A r \in grouped :
               /\ r.n = CountOfBin(long_df, r)
               /\ r.passes_n_threshold <=> (r.n >= 30)

\* The output has at most one row per (biomarker_id, biomarker_name, unit,
\* age_bin), and passes_n_threshold of a row is true exactly when the number
\* n of non-missing values of that group is at least 30.
OneRowPerGroupKey ==
    bpc = "done" =>
        /\ \A r, s \in grouped :
               (/\ r.biomarker_id = s.biomarker_id /\ r.biomarker_name = s.biomarker_name
                /\ r.unit = s.unit /\ r.age_bin = s.age_bin) => r = s
        /\ \A r \in grouped :
               /\ r.n = CountOfGroup(long_df, r)
               /\ r.passes_n_threshold <=> (r.n >= 30)

\* one biomarker_id under two names in one age bin: two rows of the output,
\* one of 30 values and one of 29
TwoRowsOfOneBin ==
    /\ bpc = "done"
    /\ \E r, s \in grouped :
        /\ r.biomarker_id = s.biomarker_id /\ r.age_bin = s.age_bin
        /\ r.biomarker_name # s.biomarker_name
        /\ r.n = 30 /\ r.passes_n_threshold
        /\ s.n = 29 /\ ~s.passes_n_threshold

-----------------------------------------------------------------------------
(* Claims on the frame of write_long_dataset                               *)

IsPrefix(a, b) == Len(a) <= Len(b) /\ SubSeq(b, 1, Len(a)) = a

\* a step of the loop leaves the pooling map alone, adds rows after the rows
\* written before, and keeps the counter equal to the number of rows; the
\* step that returns gives that number
LoopStepKeepsFrame ==
    wpc \in {"files", "vars"} =>
        /\ pooling_map_df' = pooling_map_df
        /\ IsPrefix(long_table, long_table')
        /\ n_rows' = Len(long_table')
        /\ wpc' = "done" => returned'[1] = Len(long_table')

\* C23: during the loop of write_long_dataset over the files and their
\* variables the pooling map built at the start is never modified and the
\* long table is append-only: a step only adds rows after the rows written
\* before, the counter n_rows is the number of rows written, and the row
\* count returned is the total number of rows written.
C23_PoolingMapFrozenTableAppendOnly == [][LoopStepKeepsFrame]_vars

\* the function returned after two variables were kept, the rows of the
\* first followed by the rows of the second
C23_Witness ==
    /\ wpc = "done"
    /\ returned[1] = Len(long_table)
    /\ long_table # <<>>
    /\ long_table[1].variable_name # long_table[Len(long_table)].variable_name

CatalogIds == { catalog[i].biomarker_id : i \in DOMAIN catalog }
LongTableIds == { long_table[i].biomarker_id : i \in DOMAIN long_table }
KeptRecords == { screen_rows[i] : i \in { j \in DOMAIN screen_rows : screen_rows[j].screen_result = "kept" } }

\* C30: after write_long_dataset has completed, the biomarker_id values of
\* the catalog are those with at least one row in the long table, the
\* returned biomarker count is their number, and every screening record
\* marked kept names one of them as its pooled_id.
C30_CatalogAgreesWithLongTable ==
    wpc = "done" =>
        /\ CatalogIds = LongTableIds
        /\ returned[3] = Cardinality(LongTableIds)
        /\ \A r \in KeptRecords : r.pooled_id \in LongTableIds

\* a run that completed with rows of two biomarkers in the long table and
\* two rows in the catalog
C30_Witness ==
    /\ wpc = "done"
    /\ Cardinality(LongTableIds) >= 2
    /\ Cardinality(KeptRecords) >= 2
    /\ Len(catalog) >= 2


\* a long table in which one biomarker_id is written under two names
OneIdTwoNames ==
    \E i, j \in DOMAIN long_table :
        /\ long_table[i].biomarker_id = long_table[j].biomarker_id
        /\ long_table[i].biomarker_name # long_table[j].biomarker_name

=============================================================================
